---- MODULE Spec2Model ----
(***************************************************************************)
(* A model of webtric's carton sizing / resizing engine                    *)
(* (src/src/cartons.rs, src/src/cartons/resize.rs, src/src/sizon.rs).      *)
(*                                                                         *)
(* Numbers.  The code computes in f64.  The model computes in exact        *)
(* rational arithmetic: a number is a pair <<n, d>> in lowest terms with   *)
(* d > 0.  Rounding of single f64 operations is therefore not modelled;    *)
(* the code's own explicit roundings (floor() in adjust_to_fill_blank and  *)
(* the "{:.2}px" formatting in update_style) are modelled by what they do. *)
(*                                                                         *)
(* Option<T>.  None is the empty sequence, Some(x) the sequence <<x>>.     *)
(***************************************************************************)
EXTENDS Integers, Sequences, FiniteSets, TLC

(***************************************************************************)
(* Exact rational arithmetic standing for f64                              *)
(***************************************************************************)
RECURSIVE GCD(_, _)
GCD(a, b) ==
  IF b = 0 THEN a
  ELSE IF a % b = 0 THEN b
  ELSE IF b % (a % b) = 0 THEN a % b
  ELSE GCD(b % (a % b), (a % b) % (b % (a % b)))

IAbs(n) ==
  IF n < 0 THEN -n ELSE n

Norm(n, d) ==
  IF d = 1 THEN <<n, 1>>
  ELSE LET s == IF d < 0 THEN -1 ELSE 1
           g == GCD(IAbs(n), IAbs(d))
       IN  <<(s * n) \div g, (s * d) \div g>>

R(n) ==
  <<n, 1>>

Q(n, d) ==
  Norm(n, d)

Zero ==
  <<0, 1>>

RAdd(x, y) ==
  IF x[2] = y[2] THEN Norm(x[1] + y[1], x[2])
  ELSE LET g == GCD(x[2], y[2])
       IN  Norm(x[1] * (y[2] \div g) + y[1] * (x[2] \div g), (x[2] \div g) * y[2])

RNeg(x) ==
  <<-x[1], x[2]>>

RSub(x, y) ==
  IF x[2] = y[2] THEN Norm(x[1] - y[1], x[2])
  ELSE LET g == GCD(x[2], y[2])
       IN  Norm(x[1] * (y[2] \div g) - y[1] * (x[2] \div g), (x[2] \div g) * y[2])

RMul(x, y) ==
  IF x[1] = 0 \/ y[1] = 0 THEN Zero
  ELSE LET g1 == GCD(IAbs(x[1]), y[2])
           g2 == GCD(IAbs(y[1]), x[2])
       IN  Norm((x[1] \div g1) * (y[1] \div g2), (x[2] \div g2) * (y[2] \div g1))

\* x / y for y # 0 (the model never divides by zero: see the configurations)
RDiv(x, y) ==
  RMul(x, IF y[1] < 0 THEN <<-y[2], -y[1]>> ELSE <<y[2], y[1]>>)

RSign(x) ==
  IF x[1] > 0 THEN 1 ELSE IF x[1] < 0 THEN -1 ELSE 0

\* comparisons: the denominators are positive; x and y are brought to their
\* least common denominator, CrossL(x, y) and CrossR(x, y) the numerators
CrossL(x, y) ==
  x[1] * (y[2] \div GCD(x[2], y[2]))

CrossR(x, y) ==
  y[1] * (x[2] \div GCD(x[2], y[2]))

RLt(x, y) ==
  CrossL(x, y) < CrossR(x, y)

RLe(x, y) ==
  CrossL(x, y) <= CrossR(x, y)

RGt(x, y) ==
  CrossL(x, y) > CrossR(x, y)

RGe(x, y) ==
  CrossL(x, y) >= CrossR(x, y)

\* f64::min / f64::max
RMin(x, y) ==
  IF CrossL(x, y) <= CrossR(x, y) THEN x ELSE y

RMax(x, y) ==
  IF CrossL(x, y) >= CrossR(x, y) THEN x ELSE y

\* f64::abs
RAbs(x) ==
  <<IAbs(x[1]), x[2]>>

\* f64::floor
RFloor(x) ==
  <<x[1] \div x[2], 1>>

\* format!("{:.2}", x) read back as a number: the nearest multiple of 1/100,
\* a tie going to the even hundredth
Round2(x) ==
  LET i  == x[1] \div x[2]
      h  == (x[1] - i * x[2]) * 100
      fl == h \div x[2]
      r2 == 2 * (h - fl * x[2])
      up == r2 > x[2] \/ (r2 = x[2] /\ (i * 100 + fl) % 2 = 1)
  IN  Norm(i * 100 + fl + (IF up THEN 1 ELSE 0), 100)

\* Statements in sequence are written  CHOOSE o \in {F(v) : v \in {x}} : TRUE,
\* which is F(x) with x computed before F is entered: one statement of the
\* code is done before the next begins.

(***************************************************************************)
(* Option<T>                                                               *)
(***************************************************************************)
None ==
  <<>>

Some(x) ==
  <<x>>

IsSome(o) ==
  o # <<>>

IsNone(o) ==
  o = <<>>

Unwrap(o) ==
  o[1]

(***************************************************************************)
(* Sizon (src/src/sizon.rs): [abs: Option<f64>, rel: Option<f64>]          *)
(***************************************************************************)
Sizon_new(abs, rel) ==
  [abs |-> abs, rel |-> rel]

Sizon_abs(abs) ==
  [abs |-> Some(abs), rel |-> None]

Sizon_rel(rel) ==
  [abs |-> None, rel |-> Some(rel)]

Sizon_default ==
  [abs |-> None, rel |-> None]

max_abs(self, abs) ==
  IF IsSome(self.abs) THEN RMax(Unwrap(self.abs), abs) ELSE abs

min_abs(self, abs) ==
  IF IsSome(self.abs) THEN RMin(Unwrap(self.abs), abs) ELSE abs

\* the f64 values that are no number: infinity and NaN
Inf ==
  <<1, 0>>

NaN ==
  <<0, 0>>

\* f64::is_normal on the values the model holds: neither zero, infinite nor NaN
is_normal(par) ==
  par[2] # 0 /\ par[1] # 0

\* Sizon::max(abs, par), par an Option
Sizon_max(self, abs, par) ==
  LET a == max_abs(self, abs)
  IN  IF IsSome(self.rel) /\ IsSome(par) /\ is_normal(Unwrap(par))
         /\ RGt(Unwrap(self.rel), RDiv(a, Unwrap(par)))
      THEN RMul(Unwrap(par), Unwrap(self.rel))
      ELSE a

\* the mutation of C26: min that never looks at the rel field
Sizon_min_abs_only(self, abs, par) ==
  min_abs(self, abs)

\* Sizon::min(abs, par), par an Option
Sizon_min(self, abs, par) ==
  LET a == min_abs(self, abs)
  IN  IF IsSome(self.rel) /\ IsSome(par) /\ is_normal(Unwrap(par))
         /\ RLt(Unwrap(self.rel), RDiv(a, Unwrap(par)))
      THEN RMul(Unwrap(par), Unwrap(self.rel))
      ELSE a

(***************************************************************************)
(* CartonsMap<T, V> (src/src/cartons.rs): [map: a function on the ids      *)
(* listed, default: V]                                                     *)
(***************************************************************************)
CartonsMap_new(map, default) ==
  [map |-> map, default |-> default]

get(self, data) ==
  IF data \in DOMAIN self.map THEN self.map[data] ELSE self.default

remove(self, data) ==
  [self EXCEPT !.map = [k \in (DOMAIN self.map) \ {data} |-> self.map[k]]]

\* the mutation of C25: insert keeps the value of an id already present
insert_if_absent(self, data, value) ==
  [self EXCEPT !.map = [k \in (DOMAIN self.map) \cup {data} |->
                          IF k \in DOMAIN self.map THEN self.map[k] ELSE value]]

insert(self, data, value) ==
  [self EXCEPT !.map = [k \in (DOMAIN self.map) \cup {data} |->
                          IF k = data THEN value ELSE self.map[k]]]

\* list.into_iter().collect() into a HashMap: a Vec of pairs <<data, value>>,
\* the last pair of an id wins
collect(list) ==
  [k \in {list[i][1] : i \in DOMAIN list} |->
     list[CHOOSE i \in DOMAIN list :
            list[i][1] = k /\ \A j \in DOMAIN list : list[j][1] = k => j <= i][2]]

\* f64::default()
f64_default ==
  0

\* Into<CartonsMap<T, V>> for Vec<(T, V)>
CartonsMap_from_vec(list) ==
  [map |-> collect(list), default |-> f64_default]

\* Into<CartonsMap<T, V>> for (Vec<(T, V)>, V)
CartonsMap_from_tuple(list, default) ==
  [map |-> collect(list), default |-> default]

(***************************************************************************)
(* A Vec<(T, Option<f64>)> ("data_sizes") is a sequence of pairs           *)
(* <<data, size>>, size an Option.                                         *)
(***************************************************************************)
SetSize(data_sizes, i, size) ==
  [data_sizes EXCEPT ![i] = <<data_sizes[i][1], size>>]

RECURSIVE SumSizes(_, _)
SumSizes(data_sizes, i) ==
  IF i > Len(data_sizes) THEN Zero
  ELSE RAdd(IF IsSome(data_sizes[i][2]) THEN Unwrap(data_sizes[i][2]) ELSE Zero,
            SumSizes(data_sizes, i + 1))

get_total_size(data_sizes) ==
  SumSizes(data_sizes, 1)

\* the mutation of C28: abs_revised that revises the rel field as well
abs_revised_rel_too(self, data_sizes, total_size) ==
  [map |-> [d \in {data_sizes[i][1] : i \in 1..Len(data_sizes)} |->
              LET i == CHOOSE j \in 1..Len(data_sizes) : data_sizes[j][1] = d
                  size == data_sizes[i][2]
              IN  IF IsSome(size) /\ IsSome(get(self, d))
                  THEN Some(Sizon_new(size, Some(RDiv(Unwrap(size), total_size))))
                  ELSE None],
   default |-> Some(Sizon_abs(total_size))]

\* a variant of abs_revised that stores a zeroed carton as a sized one of
\* size 0
abs_revised_zeroed_as_sized(self, data_sizes, total_size) ==
  [map |-> [d \in {data_sizes[i][1] : i \in 1..Len(data_sizes)} |->
              LET i == CHOOSE j \in 1..Len(data_sizes) : data_sizes[j][1] = d
                  size == data_sizes[i][2]
                  sizon == get(self, d)
              IN  IF IsSome(size)
                  THEN IF IsSome(sizon)
                       THEN Some([Unwrap(sizon) EXCEPT !.abs = size])
                       ELSE None
                  ELSE Some(Sizon_abs(Zero))],
   default |-> Some(Sizon_abs(total_size))]

\* CartonsMetric::abs_revised
abs_revised(self, data_sizes, total_size) ==
  [map |-> [d \in {data_sizes[i][1] : i \in 1..Len(data_sizes)} |->
              LET i == CHOOSE j \in 1..Len(data_sizes) : data_sizes[j][1] = d
                  size == data_sizes[i][2]
                  sizon == get(self, d)
              IN  IF IsSome(size)
                  THEN IF IsSome(sizon)
                       THEN Some([Unwrap(sizon) EXCEPT !.abs = size])
                       ELSE None
                  ELSE None],
   default |-> Some(Sizon_abs(total_size))]

\* CartonsMetric::new_from
new_from(data_sizes, total_size) ==
  [map |-> [d \in {data_sizes[i][1] : i \in 1..Len(data_sizes)} |->
              LET i == CHOOSE j \in 1..Len(data_sizes) : data_sizes[j][1] = d
                  size == data_sizes[i][2]
              IN  IF IsSome(size)
                  THEN Some(Sizon_new(size, Some(RDiv(Unwrap(size), total_size))))
                  ELSE None],
   default |-> Some(Sizon_abs(total_size))]

(***************************************************************************)
(* CartonsComplex (src/src/cartons.rs).  self is the record                *)
(* [independent, metric, min, max, allow_zero, zeroed_when, zeroed_cache]; *)
(* the fields lateral and name only select the DOM property and the        *)
(* dataset key and are left out.                                           *)
(***************************************************************************)
\* a variant of max_limited that applies no limit
max_limited_unlimited(self, data, size, wrap_size) ==
  size

max_limited(self, data, size, wrap_size) ==
  Sizon_min(get(self.max, data), size, Some(wrap_size))

limited(self, data, size, wrap_size) ==
  LET s == Sizon_min(get(self.max, data), size, Some(wrap_size))
  IN  Sizon_max(get(self.min, data), s, Some(wrap_size))

\* an Option: None when the carton has no max limit
_max(self, data, wrap_size) ==
  LET sizon == get(self.max, data)
  IN  IF IsSome(sizon.abs)
      THEN IF IsSome(sizon.rel)
           THEN Some(RMin(Unwrap(sizon.abs), RMul(Unwrap(sizon.rel), wrap_size)))
           ELSE sizon.abs
      ELSE IF IsSome(sizon.rel)
           THEN Some(RMul(Unwrap(sizon.rel), wrap_size))
           ELSE None

_min(self, data, wrap_size) ==
  LET sizon == get(self.min, data)
  IN  IF IsSome(sizon.abs)
      THEN IF IsSome(sizon.rel)
           THEN RMax(Unwrap(sizon.abs), RMul(Unwrap(sizon.rel), wrap_size))
           ELSE Unwrap(sizon.abs)
      ELSE IF IsSome(sizon.rel)
           THEN RMul(Unwrap(sizon.rel), wrap_size)
           ELSE Zero

\* a variant of _zeroed_when that does not look at allow_zero
_zeroed_when_any(self, data, size) ==
  LET sizon == get(self.zeroed_when, data)
      x == IF IsSome(sizon.abs)
           THEN IF IsSome(sizon.rel)
                THEN RMax(Unwrap(sizon.abs), RMul(Unwrap(sizon.rel), size))
                ELSE Unwrap(sizon.abs)
           ELSE IF IsSome(sizon.rel)
                THEN RMul(Unwrap(sizon.rel), size)
                ELSE Zero
  IN  Some(RMax(x, Zero))

\* an Option: None when the carton is not allowed to be zeroed
_zeroed_when(self, data, size) ==
  IF ~get(self.allow_zero, data) THEN None
  ELSE LET sizon == get(self.zeroed_when, data)
           x == IF IsSome(sizon.abs)
                THEN IF IsSome(sizon.rel)
                     THEN RMax(Unwrap(sizon.abs), RMul(Unwrap(sizon.rel), size))
                     ELSE Unwrap(sizon.abs)
                ELSE IF IsSome(sizon.rel)
                     THEN RMul(Unwrap(sizon.rel), size)
                     ELSE Zero
       IN  Some(RMax(x, Zero))

\* metric.map.get(data): an id missing from the map is not "zeroed"
_zeroed(self, data) ==
  IF data \in DOMAIN self.metric.map THEN IsNone(self.metric.map[data]) ELSE FALSE

_zeroed_cache(self, data, wrap_size) ==
  RMul(wrap_size, get(self.zeroed_cache, data))

\* a variant of FillProportional that offers every carton the whole blank
RECURSIVE FillProportional_whole_blank(_, _, _, _)
FillProportional_whole_blank(self, wrap_size, st, i) ==
  IF i > Len(st.sizes) \/ ~RGt(st.blank, Zero) THEN st
  ELSE LET data == st.sizes[i][1]
           osz  == st.sizes[i][2]
       IN  IF IsNone(osz) THEN FillProportional_whole_blank(self, wrap_size, st, i + 1)
           ELSE LET size     == Unwrap(osz)
                    new_size == max_limited(self, data, RAdd(size, st.blank), wrap_size)
                    delta    == RMax(RSub(new_size, size), Zero)
                IN  FillProportional_whole_blank(self, wrap_size,
                      [sizes |-> SetSize(st.sizes, i, Some(RAdd(size, delta))),
                       blank |-> RSub(st.blank, delta),
                       total |-> RAdd(st.total, delta)], i + 1)

\* adjust_to_fill_blank, pass 1 (proportional distribution) from index i on;
\* st = [sizes, blank, total]
RECURSIVE FillProportional(_, _, _, _)
FillProportional(self, wrap_size, st, i) ==
  IF i > Len(st.sizes) \/ ~RGt(st.blank, Zero) THEN st
  ELSE LET data == st.sizes[i][1]
           osz  == st.sizes[i][2]
       IN  IF IsNone(osz) THEN FillProportional(self, wrap_size, st, i + 1)
           ELSE LET size     == Unwrap(osz)
                    add      == RMul(RDiv(size, wrap_size), st.blank)
                    new_size == max_limited(self, data, RAdd(size, add), wrap_size)
                    delta    == RMax(RSub(new_size, size), Zero)
                IN  FillProportional(self, wrap_size,
                      [sizes |-> SetSize(st.sizes, i, Some(RAdd(size, delta))),
                       blank |-> RSub(st.blank, delta),
                       total |-> RAdd(st.total, delta)], i + 1)

\* a variant of FillFromRear that hands out nothing
FillFromRear_skipped(self, wrap_size, st, i) ==
  st

\* adjust_to_fill_blank, pass 2 (distribute from rear ones) from index i down
RECURSIVE FillFromRear(_, _, _, _)
FillFromRear(self, wrap_size, st, i) ==
  IF i < 1 \/ ~RGt(st.blank, Zero) THEN st
  ELSE LET data == st.sizes[i][1]
           osz  == st.sizes[i][2]
       IN  IF IsNone(osz) THEN FillFromRear(self, wrap_size, st, i - 1)
           ELSE LET size     == Unwrap(osz)
                    new_size == max_limited(self, data, RAdd(size, st.blank), wrap_size)
                    delta    == RMax(RSub(new_size, size), Zero)
                IN  FillFromRear(self, wrap_size,
                      [sizes |-> SetSize(st.sizes, i, Some(RAdd(size, delta))),
                       blank |-> RSub(st.blank, delta),
                       total |-> RAdd(st.total, delta)], i - 1)

\* a variant of FillBlank that keeps the fraction of the blank
FillBlank_unfloored(wrap_size, data_sizes) ==
  RSub(wrap_size, get_total_size(data_sizes))

\* the blank adjust_to_fill_blank computes on entry
FillBlank(wrap_size, data_sizes) ==
  RFloor(RSub(wrap_size, get_total_size(data_sizes)))

\* adjust_to_fill_blank: [sizes |-> the adjusted data_sizes, total |-> the value returned]
adjust_to_fill_blank(self, wrap_size, data_sizes) ==
  LET adjusted(st) ==
        [sizes |-> st.sizes, total |-> st.total]
      \* 2. distribute from rear ones
      rear(st1) ==
        IF RGt(st1.blank, Zero)
        THEN CHOOSE o1 \in {adjusted(v1) : v1 \in {FillFromRear(self, wrap_size, st1, Len(data_sizes))}} : TRUE
        ELSE adjusted(st1)
      \* 1. proportional distribution
      fill(st0) ==
        IF RGt(st0.blank, Zero)
        THEN CHOOSE o2 \in {rear(v2) : v2 \in {FillProportional(self, wrap_size, st0, 1)}} : TRUE ELSE adjusted(st0)
  IN  CHOOSE o3 \in {fill(v3) : v3 \in {[sizes |-> data_sizes,
            blank |-> FillBlank(wrap_size, data_sizes),
            total |-> get_total_size(data_sizes)]}} : TRUE

\* update_style: the size and front position written to each carton's style
\* from index `since` on (1-based here); old is the style before the call.
\* A style is a function from carton id to [size, pos].
RECURSIVE StylePos(_, _)
StylePos(data_sizes, i) ==
  IF i <= 1 THEN Zero
  ELSE RAdd(StylePos(data_sizes, i - 1),
            IF IsSome(data_sizes[i - 1][2]) THEN Unwrap(data_sizes[i - 1][2]) ELSE Zero)

\* a variant of update_style whose position is the sum of the sizes as written
RECURSIVE WrittenPos(_, _)
WrittenPos(data_sizes, i) ==
  IF i <= 1 THEN Zero
  ELSE RAdd(WrittenPos(data_sizes, i - 1),
            IF IsSome(data_sizes[i - 1][2]) THEN Round2(Unwrap(data_sizes[i - 1][2]))
            ELSE Zero)

update_style_sum_of_written(old, data_sizes, since) ==
  [d \in DOMAIN old |->
     IF \E i \in since..Len(data_sizes) : data_sizes[i][1] = d
     THEN LET i == CHOOSE j \in since..Len(data_sizes) : data_sizes[j][1] = d
              size == IF IsSome(data_sizes[i][2]) THEN Unwrap(data_sizes[i][2]) ELSE Zero
          IN  [size |-> Round2(size), pos |-> WrittenPos(data_sizes, i)]
     ELSE old[d]]

update_style(old, data_sizes, since) ==
  [d \in DOMAIN old |->
     IF \E i \in since..Len(data_sizes) : data_sizes[i][1] = d
     THEN LET i == CHOOSE j \in since..Len(data_sizes) : data_sizes[j][1] = d
              size == IF IsSome(data_sizes[i][2]) THEN Unwrap(data_sizes[i][2]) ELSE Zero
          IN  [size |-> Round2(size), pos |-> Round2(StylePos(data_sizes, i))]
     ELSE old[d]]

\* the mutation of C27: the candidate sizes taken from the abs field first
Candidates_abs_first(self, wrap_size, datas) ==
  [i \in 1..Len(datas) |->
     LET data  == datas[i]
         sizon == get(self.metric, data)
     IN  <<data,
           IF IsSome(sizon)
           THEN LET z == Unwrap(sizon)
                    size == IF IsSome(z.abs) THEN Unwrap(z.abs)
                            ELSE IF IsSome(z.rel) THEN RMul(wrap_size, Unwrap(z.rel))
                            ELSE Zero
                IN  Some(limited(self, data, size, wrap_size))
           ELSE None>>]

\* wrap_effect_on_update, lines 400-413: the candidate sizes
Candidates(self, wrap_size, datas) ==
  [i \in 1..Len(datas) |->
     LET data  == datas[i]
         sizon == get(self.metric, data)
     IN  <<data,
           IF IsSome(sizon)
           THEN LET z == Unwrap(sizon)
                    size == IF IsSome(z.rel) THEN RMul(wrap_size, Unwrap(z.rel))
                            ELSE IF IsSome(z.abs) THEN Unwrap(z.abs) ELSE Zero
                IN  Some(limited(self, data, size, wrap_size))
           ELSE None>>]

\* wrap_effect_on_update with the wrap element resolved:
\* [metric |-> the metric returned, sizes |-> the data_sizes written to the style]
wrap_effect_on_update(self, wrap_size, datas) ==
  LET revised(adj) ==
        [metric |-> abs_revised(self.metric, adj.sizes, adj.total),
         sizes  |-> adj.sizes]
      sized(data_sizes) ==
        CHOOSE o4 \in {revised(v4) : v4 \in {IF self.independent
             THEN [sizes |-> data_sizes, total |-> get_total_size(data_sizes)]
             ELSE adjust_to_fill_blank(self, wrap_size, data_sizes)}} : TRUE
  IN  CHOOSE o5 \in {sized(v5) : v5 \in {Candidates(self, wrap_size, datas)}} : TRUE

(***************************************************************************)
(* Resizing (src/src/cartons/resize.rs).  Indices are 1-based here: the    *)
(* code's index k is k + 1 in the model.  The mutable arguments of the     *)
(* code (data_sizes, the session cache, the zeroed_cache and zero_restored *)
(* collected by one call) travel in a record                               *)
(*   st = [ds, cache, zc, zr]                                              *)
(* ds: data_sizes, cache: a sequence of <<index, size>>, zc: a function    *)
(* from id to ratio, zr: a set of ids.                                     *)
(***************************************************************************)
MapInsert(f, k, v) ==
  [x \in (DOMAIN f) \cup {k} |-> IF x = k THEN v ELSE f[x]]

\* a variant of handle_expanding that restores a zeroed carton on any
\* expanding delta, whatever the threshold
handle_expanding_no_threshold(self, data, delta, wrap_size, st, index, size, min) ==
  IF IsSome(size)
  THEN LET new_size == RAdd(Unwrap(size), delta)
           lim == max_limited(self, data, new_size, wrap_size)
       IN  IF RGe(new_size, min) /\ RLt(Unwrap(size), lim)
           THEN [res |-> Some(lim),
                 st  |-> [st EXCEPT !.ds = SetSize(st.ds, index, Some(lim))]]
           ELSE [res |-> None, st |-> st]
  ELSE IF IsSome(_zeroed_when(self, data, Zero))
       THEN [res |-> Some(min),
             st  |-> [st EXCEPT !.ds = SetSize(st.ds, index, Some(min)),
                                !.zr = st.zr \ {data}]]
       ELSE [res |-> None, st |-> st]

\* handle_expanding: [res |-> Option<f64>, st |-> the arguments after the call]
handle_expanding(self, data, delta, wrap_size, st, index, size, min) ==
  IF IsSome(size)
  THEN LET new_size == RAdd(Unwrap(size), delta)
           lim == max_limited(self, data, new_size, wrap_size)
       IN  IF RGe(new_size, min) /\ RLt(Unwrap(size), lim)
           THEN [res |-> Some(lim),
                 st  |-> [st EXCEPT !.ds = SetSize(st.ds, index, Some(lim))]]
           ELSE [res |-> None, st |-> st]
  ELSE LET zeroed_when == _zeroed_when(self, data, Zero)
       IN  IF IsSome(zeroed_when) /\ RGe(delta, Unwrap(zeroed_when))
           THEN [res |-> Some(min),
                 st  |-> [st EXCEPT !.ds = SetSize(st.ds, index, Some(min)),
                                    !.zr = st.zr \ {data}]]
           ELSE [res |-> None, st |-> st]

\* a variant of handle_shrinking that zeroes as soon as |delta| reaches the
\* threshold (>= in place of >)
handle_shrinking_at_threshold(self, data, delta, wrap_size, st, index, size, min) ==
  IF IsSome(size)
  THEN LET new_size == RAdd(Unwrap(size), delta)
       IN  IF RLt(new_size, min)
           THEN LET zeroed_when == _zeroed_when(self, data, Unwrap(size))
                IN  IF IsSome(zeroed_when) /\ RGe(RAbs(delta), Unwrap(zeroed_when))
                    THEN [res |-> Some(Zero),
                          st  |-> [st EXCEPT !.ds = SetSize(st.ds, index, None)]]
                    ELSE [res |-> None, st |-> st]
           ELSE [res |-> Some(new_size),
                 st  |-> [st EXCEPT !.ds = SetSize(st.ds, index, Some(new_size)),
                                    !.zc = MapInsert(st.zc, data,
                                                     RDiv(Unwrap(size), wrap_size))]]
  ELSE [res |-> None, st |-> st]

\* handle_shrinking: [res |-> Option<f64>, st |-> the arguments after the call]
handle_shrinking(self, data, delta, wrap_size, st, index, size, min) ==
  IF IsSome(size)
  THEN LET new_size == RAdd(Unwrap(size), delta)
       IN  IF RLt(new_size, min)
           THEN LET zeroed_when == _zeroed_when(self, data, Unwrap(size))
                IN  IF IsSome(zeroed_when) /\ RGt(RAbs(delta), Unwrap(zeroed_when))
                    THEN [res |-> Some(Zero),
                          st  |-> [st EXCEPT !.ds = SetSize(st.ds, index, None)]]
                    ELSE [res |-> None, st |-> st]
           ELSE [res |-> Some(new_size),
                 st  |-> [st EXCEPT !.ds = SetSize(st.ds, index, Some(new_size)),
                                    !.zc = MapInsert(st.zc, data,
                                                     RDiv(Unwrap(size), wrap_size))]]
  ELSE [res |-> None, st |-> st]

\* a variant of independent_resizing that takes what the carton gained from
\* the next sized carton
independent_resizing_borrowing(self, data, delta, wrap_size, st, index, size) ==
  IF delta = Zero THEN [ok |-> FALSE, st |-> st]
  ELSE LET min == _min(self, data, wrap_size)
           lend(r) ==
             IF IsSome(r.res) /\ index < Len(st.ds) /\ IsSome(st.ds[index + 1][2])
                /\ IsSome(size)
             THEN [ok |-> TRUE,
                   st |-> [r.st EXCEPT !.ds = SetSize(r.st.ds, index + 1,
                             Some(RSub(Unwrap(st.ds[index + 1][2]),
                                       RSub(Unwrap(r.res), Unwrap(size)))))]]
             ELSE [ok |-> IsSome(r.res), st |-> r.st]
       IN  lend(IF RGt(delta, Zero)
                THEN handle_expanding(self, data, delta, wrap_size, st, index, size, min)
                ELSE handle_shrinking(self, data, delta, wrap_size, st, index, size, min))

\* independent_resizing: [ok |-> Ok(()) or Err(Ignore), st]
independent_resizing(self, data, delta, wrap_size, st, index, size) ==
  IF delta = Zero THEN [ok |-> FALSE, st |-> st]
  ELSE LET min == _min(self, data, wrap_size)
           r == IF RGt(delta, Zero)
                THEN handle_expanding(self, data, delta, wrap_size, st, index, size, min)
                ELSE handle_shrinking(self, data, delta, wrap_size, st, index, size, min)
       IN  [ok |-> IsSome(r.res), st |-> r.st]

\* the closure add_to_cache
add_to_cache(cache, i, size) ==
  IF \A k \in 1..Len(cache) : cache[k][1] # i
  THEN Append(cache, <<i, size>>) ELSE cache

Reverse(seq) ==
  [k \in 1..Len(seq) |-> seq[Len(seq) + 1 - k]]

\* the list of (i, data, size, min) of dependent_resizing
EntryList(self, wrap_size, data_sizes) ==
  [i \in 1..Len(data_sizes) |->
     [i |-> i, data |-> data_sizes[i][1], size |-> data_sizes[i][2],
      min |-> _min(self, data_sizes[i][1], wrap_size)]]

\* a variant of Shrinks sorted farthest from the boundary first
Shrinks_farthest_first(list, index, rev) ==
  IF rev THEN SubSeq(list, 1, index)
  ELSE Reverse(SubSeq(list, index + 1, Len(list)))

\* shrinks and expands, split at the boundary after the carton at `index`
\* and sorted closest to the boundary first; rev <=> delta < 0
Shrinks(list, index, rev) ==
  IF rev THEN Reverse(SubSeq(list, 1, index))
  ELSE SubSeq(list, index + 1, Len(list))

Expands(list, index, rev) ==
  IF rev THEN SubSeq(list, index + 1, Len(list))
  ELSE Reverse(SubSeq(list, 1, index))

\* a variant of do_shrink that shrinks the carton closest to the boundary only
do_shrink_closest(self, wrap_size, capacity, shrinks, st, k) ==
  IF Len(shrinks) = 0 \/ RLe(capacity, Zero) THEN st
  ELSE LET e == shrinks[1]
       IN  IF IsNone(e.size) THEN st
           ELSE LET size  == Unwrap(e.size)
                    delta == RNeg(RMin(RSub(size, e.min), capacity))
                    r == handle_shrinking(self, e.data, delta, wrap_size, st,
                                          e.i, e.size, e.min)
                IN  IF ~RLt(delta, Zero) \/ IsNone(r.res) THEN st
                    ELSE [r.st EXCEPT !.cache = add_to_cache(r.st.cache, e.i, size)]

\* the closure do_shrink, from entry k of shrinks on
RECURSIVE do_shrink(_, _, _, _, _, _)
do_shrink(self, wrap_size, capacity, shrinks, st, k) ==
  IF k > Len(shrinks) \/ RLe(capacity, Zero) THEN st
  ELSE LET e == shrinks[k]
       IN  IF IsNone(e.size) THEN do_shrink(self, wrap_size, capacity, shrinks, st, k + 1)
           ELSE LET size  == Unwrap(e.size)
                    delta == RNeg(RMin(RSub(size, e.min), capacity))
                IN  IF ~RLt(delta, Zero)
                    THEN do_shrink(self, wrap_size, capacity, shrinks, st, k + 1)
                    ELSE LET r == handle_shrinking(self, e.data, delta, wrap_size, st,
                                                   e.i, e.size, e.min)
                         IN  IF IsNone(r.res)
                             THEN do_shrink(self, wrap_size, capacity, shrinks, st, k + 1)
                             ELSE do_shrink(self, wrap_size,
                                    RSub(capacity, RSub(size, Unwrap(r.res))), shrinks,
                                    [r.st EXCEPT !.cache = add_to_cache(r.st.cache, e.i, size)],
                                    k + 1)

max_shrink_cap(shrinks) ==
  LET RECURSIVE Acc(_)
      Acc(k) == IF k > Len(shrinks) THEN Zero
                ELSE RAdd(IF IsSome(shrinks[k].size)
                          THEN RMax(RSub(Unwrap(shrinks[k].size), shrinks[k].min), Zero)
                          ELSE Zero,
                          Acc(k + 1))
  IN  Acc(1)

\* a variant of ZeroShrinkAbsorb that hands the whole capacity to the first
\* sized expand carton, whatever its max
RECURSIVE ZeroShrinkAbsorb_unlimited(_, _, _, _, _)
ZeroShrinkAbsorb_unlimited(self, wrap_size, expands, acc, k) ==
  IF k > Len(expands) \/ RLe(acc.cap_, Zero) THEN acc
  ELSE IF IsNone(expands[k].size)
  THEN ZeroShrinkAbsorb_unlimited(self, wrap_size, expands, acc, k + 1)
  ELSE [cap_ |-> Zero, exps |-> Append(acc.exps, <<expands[k].i, acc.cap_>>)]

\* step 1, lines 233-245: what each sized expand carton can take of `capacity`;
\* [cap_ |-> what is left, exps |-> a sequence of <<i, cap>>]
RECURSIVE ZeroShrinkAbsorb(_, _, _, _, _)
ZeroShrinkAbsorb(self, wrap_size, expands, acc, k) ==
  IF k > Len(expands) \/ RLe(acc.cap_, Zero) THEN acc
  ELSE LET e == expands[k]
       IN  IF IsNone(e.size) THEN ZeroShrinkAbsorb(self, wrap_size, expands, acc, k + 1)
           ELSE LET max == _max(self, e.data, wrap_size)
                    cap == IF IsSome(max)
                           THEN RMin(RMax(RSub(Unwrap(max), Unwrap(e.size)), Zero), acc.cap_)
                           ELSE acc.cap_
                IN  ZeroShrinkAbsorb(self, wrap_size, expands,
                      [cap_ |-> RSub(acc.cap_, cap), exps |-> Append(acc.exps, <<e.i, cap>>)],
                      k + 1)

\* data_sizes with cap added to the sized carton at i, for every <<i, cap>> of xx
RECURSIVE AddCaps(_, _, _)
AddCaps(data_sizes, xx, k) ==
  IF k > Len(xx) THEN data_sizes
  ELSE LET i == xx[k][1]
           ds == IF IsSome(data_sizes[i][2])
                 THEN SetSize(data_sizes, i, Some(RAdd(Unwrap(data_sizes[i][2]), xx[k][2])))
                 ELSE data_sizes
       IN  AddCaps(ds, xx, k + 1)

\* a variant of ExpandCache that walks the session cache oldest entry first
RECURSIVE ExpandCache_oldest_first(_, _, _, _, _)
ExpandCache_oldest_first(self, wrap_size, cache0, ex, k) ==
  IF k < 1 \/ RLe(ex.cap, Zero) THEN ex
  ELSE LET i == cache0[Len(cache0) + 1 - k][1]
           cached == cache0[Len(cache0) + 1 - k][2]
           hit == {j \in 1..Len(ex.expands) : ex.expands[j].i = i}
       IN  IF hit = {} THEN ExpandCache_oldest_first(self, wrap_size, cache0, ex, k - 1)
           ELSE LET j == CHOOSE x \in hit : TRUE
                    e == ex.expands[j]
                    delta == IF IsNone(e.size) THEN Zero
                             ELSE RMin(RSub(cached, Unwrap(e.size)), ex.cap)
                    grown(r) ==
                      IF RGt(delta, Zero) /\ IsSome(r.res)
                      THEN ExpandCache_oldest_first(self, wrap_size, cache0,
                             [st |-> r.st,
                              expands |-> [ex.expands EXCEPT ![j].size = r.res],
                              cap |-> RSub(ex.cap, RSub(Unwrap(r.res), Unwrap(e.size)))],
                             k - 1)
                      ELSE ExpandCache_oldest_first(self, wrap_size, cache0, ex, k - 1)
                IN  IF IsNone(e.size)
                    THEN ExpandCache_oldest_first(self, wrap_size, cache0, ex, k - 1)
                    ELSE grown(handle_expanding(self, e.data, delta, wrap_size, ex.st,
                                                e.i, e.size, e.min))

\* step 3.1, lines 299-319: expand the cartons of the session cache, newest first;
\* ex = [st, expands, cap]; cache0 is the session cache on entry, k counts down
RECURSIVE ExpandCache(_, _, _, _, _)
ExpandCache(self, wrap_size, cache0, ex, k) ==
  IF k < 1 \/ RLe(ex.cap, Zero) THEN ex
  ELSE LET i == cache0[k][1]
           cached == cache0[k][2]
           hit == {j \in 1..Len(ex.expands) : ex.expands[j].i = i}
       IN  IF hit = {} THEN ExpandCache(self, wrap_size, cache0, ex, k - 1)
           ELSE LET j == CHOOSE x \in hit : TRUE
                    e == ex.expands[j]
                IN  IF IsNone(e.size) THEN ExpandCache(self, wrap_size, cache0, ex, k - 1)
                    ELSE LET delta == RMin(RSub(cached, Unwrap(e.size)), ex.cap)
                             r == handle_expanding(self, e.data, delta, wrap_size, ex.st,
                                                   e.i, e.size, e.min)
                         IN  IF RGt(delta, Zero) /\ IsSome(r.res)
                             THEN ExpandCache(self, wrap_size, cache0,
                                    [st |-> r.st,
                                     expands |-> [ex.expands EXCEPT ![j].size = r.res],
                                     cap |-> RSub(ex.cap, RSub(Unwrap(r.res), Unwrap(e.size)))],
                                    k - 1)
                             ELSE ExpandCache(self, wrap_size, cache0, ex, k - 1)

\* step 3.2, lines 321-333: expand from the front
RECURSIVE ExpandFront(_, _, _, _)
ExpandFront(self, wrap_size, ex, k) ==
  IF k > Len(ex.expands) \/ RLe(ex.cap, Zero) THEN ex
  ELSE LET e == ex.expands[k]
       IN  IF IsNone(e.size) THEN ExpandFront(self, wrap_size, ex, k + 1)
           ELSE LET r == handle_expanding(self, e.data, ex.cap, wrap_size, ex.st,
                                          e.i, e.size, e.min)
                IN  IF IsSome(r.res)
                    THEN ExpandFront(self, wrap_size,
                           [st |-> r.st,
                            expands |-> [ex.expands EXCEPT ![k].size = r.res],
                            cap |-> RSub(ex.cap, RSub(Unwrap(r.res), Unwrap(e.size)))],
                           k + 1)
                    ELSE ExpandFront(self, wrap_size, ex, k + 1)

\* dependent_resizing: [ok |-> Ok(()) or Err(Ignore), st, path |-> the step taken]
dependent_resizing(self, delta, wrap_size, st, index) ==
  IF delta = Zero THEN [ok |-> FALSE, st |-> st, path |-> "zero"]
  ELSE
  LET rev == RLt(delta, Zero)
      raw_capacity == RAbs(delta)
      list == EntryList(self, wrap_size, st.ds)
      shrinks == Shrinks(list, index, rev)
      expands == Expands(list, index, rev)
      msc == max_shrink_cap(shrinks)
  IN  IF msc = Zero
      THEN \* 1. nothing can be shrinked: try the first shrink carton's zero-shrink
        IF Len(shrinks) > 0 /\ IsSome(shrinks[1].size)
           /\ IsSome(_zeroed_when(self, shrinks[1].data, Unwrap(shrinks[1].size)))
           /\ RGe(raw_capacity, Unwrap(_zeroed_when(self, shrinks[1].data, Unwrap(shrinks[1].size))))
        THEN LET f == shrinks[1]
                 a == ZeroShrinkAbsorb(self, wrap_size, expands,
                                       [cap_ |-> Unwrap(f.size), exps |-> <<>>], 1)
             IN  IF a.exps # <<>> /\ a.cap_ = Zero
                 THEN [ok |-> TRUE,
                       st |-> [st EXCEPT
                                 !.ds = AddCaps(SetSize(st.ds, f.i, None), a.exps, 1),
                                 !.zc = MapInsert(st.zc, f.data, RDiv(Unwrap(f.size), wrap_size)),
                                 !.cache = add_to_cache(st.cache, f.i, Unwrap(f.size))],
                       path |-> "zero_shrink"]
                 ELSE [ok |-> FALSE, st |-> st, path |-> "zero_shrink"]
        ELSE [ok |-> FALSE, st |-> st, path |-> "zero_shrink"]
      ELSE IF Len(expands) > 0 /\ IsNone(expands[1].size)
              /\ IsSome(_zeroed_when(self, expands[1].data, Zero))
      THEN \* 2. the first expand carton is zeroed: try its zero-restore
        LET f == expands[1]
        IN  IF RGe(raw_capacity, Unwrap(_zeroed_when(self, f.data, Zero))) /\ RLe(f.min, msc)
            THEN [ok |-> TRUE,
                  st |-> do_shrink(self, wrap_size, f.min, shrinks,
                           [st EXCEPT !.ds = SetSize(st.ds, f.i, Some(f.min)),
                                      !.zr = st.zr \cup {f.data}], 1),
                  path |-> "zero_restore"]
            ELSE [ok |-> FALSE, st |-> st, path |-> "zero_restore"]
      ELSE \* 3. expand and shrink
        LET exp_capacity0 == RMin(raw_capacity, msc)
            \* 3.3 shrink by what was expanded
            shrink(ex2) ==
              [ok |-> TRUE,
               st |-> do_shrink(self, wrap_size, RSub(exp_capacity0, ex2.cap), shrinks,
                                ex2.st, 1),
               path |-> "cascade"]
            \* 3.2 expand from the front what the cache left
            front(ex1) ==
              CHOOSE o6 \in {shrink(v6) : v6 \in {ExpandFront(self, wrap_size, ex1, 1)}} : TRUE
        IN  \* 3.1 expand the cached cartons
            CHOOSE o7 \in {front(v7) : v7 \in {ExpandCache(self, wrap_size, st.cache,
                             [st |-> st, expands |-> expands, cap |-> exp_capacity0],
                             Len(st.cache))}} : TRUE

\* measures: the data_sizes read from the DOM.  A carton the metric holds as
\* zeroed measures None; any other measures the size its style was given.
MeasuredSizes(self, style, datas) ==
  [i \in 1..Len(datas) |->
     <<datas[i], IF _zeroed(self, datas[i]) THEN None ELSE Some(style[datas[i]].size)>>]

\* a variant of IndexOf that falls back on the first carton when `data` is not
\* found
IndexOf_or_first(datas, data) ==
  IF \E i \in 1..Len(datas) : datas[i] = data
  THEN CHOOSE i \in 1..Len(datas) : datas[i] = data
  ELSE 1

\* measures: the index of `data` among the cartons, 0 when it is not found
\* (the code returns Err(Msg("data is not found")))
IndexOf(datas, data) ==
  IF \E i \in 1..Len(datas) : datas[i] = data
  THEN CHOOSE i \in 1..Len(datas) : datas[i] = data
  ELSE 0

\* update_resize: [res |-> "Ok", "Ignore" or "Msg", metric, style, cache, zc, zr, path]
update_resize(self, style, wrap_size, datas, data, delta, cache) ==
  LET index == IndexOf(datas, data)
      ds0 == MeasuredSizes(self, style, datas)
      st0 == [ds |-> ds0, cache |-> cache, zc |-> <<>>, zr |-> {}]
      fail(res, path) == [res |-> res, metric |-> self.metric, style |-> style,
                          cache |-> cache, zc |-> <<>>, zr |-> {}, path |-> path]
  IN  IF index = 0 THEN fail("Msg", "measures")
      ELSE IF self.independent
      THEN LET resized(r) ==
                 IF ~r.ok THEN [fail("Ignore", "independent") EXCEPT !.cache = r.st.cache]
                 ELSE [res |-> "Ok",
                       metric |-> new_from(r.st.ds, get_total_size(r.st.ds)),
                       style |-> update_style(style, r.st.ds, index),
                       cache |-> r.st.cache, zc |-> r.st.zc, zr |-> r.st.zr,
                       path |-> "independent"]
           IN  CHOOSE o8 \in {resized(v8) : v8 \in {independent_resizing(self, data, delta, wrap_size, st0, index,
                                         ds0[index][2])}} : TRUE
      ELSE LET resized(r) ==
                 LET filled(adj) ==
                       [res |-> "Ok",
                        metric |-> new_from(adj.sizes, adj.total),
                        style |-> update_style(style, adj.sizes, 1),
                        cache |-> r.st.cache, zc |-> r.st.zc, zr |-> r.st.zr,
                        path |-> r.path]
                 IN  IF ~r.ok THEN [fail("Ignore", r.path) EXCEPT !.cache = r.st.cache]
                     ELSE CHOOSE o9 \in {filled(v9) : v9 \in {adjust_to_fill_blank(self, wrap_size, r.st.ds)}} : TRUE
           IN  CHOOSE o10 \in {resized(v10) : v10 \in {dependent_resizing(self, delta, wrap_size, st0, index)}} : TRUE

\* a variant of RestoreFund that takes from a carton all of its size, whatever
\* its minimum
RECURSIVE RestoreFund_below_min(_, _, _, _, _)
RestoreFund_below_min(self, wrap_size, data_sizes, acc, i) ==
  IF i > Len(data_sizes) \/ RLe(acc.cap_, Zero) THEN acc
  ELSE IF IsNone(data_sizes[i][2])
  THEN RestoreFund_below_min(self, wrap_size, data_sizes, acc, i + 1)
  ELSE LET cap == RMin(Unwrap(data_sizes[i][2]), acc.cap_)
       IN  RestoreFund_below_min(self, wrap_size, data_sizes,
             [cap_ |-> RSub(acc.cap_, cap), xx |-> Append(acc.xx, <<i, RNeg(cap)>>)],
             i + 1)

\* switch_zero, lines 401-413: what each sized carton can give above its minimum;
\* acc = [cap_, xx]
RECURSIVE RestoreFund(_, _, _, _, _)
RestoreFund(self, wrap_size, data_sizes, acc, i) ==
  IF i > Len(data_sizes) \/ RLe(acc.cap_, Zero) THEN acc
  ELSE IF IsNone(data_sizes[i][2]) THEN RestoreFund(self, wrap_size, data_sizes, acc, i + 1)
  ELSE LET min == _min(self, data_sizes[i][1], wrap_size)
           cap == RMin(RMax(RSub(Unwrap(data_sizes[i][2]), min), Zero), acc.cap_)
       IN  IF RGt(cap, Zero)
           THEN RestoreFund(self, wrap_size, data_sizes,
                  [cap_ |-> RSub(acc.cap_, cap), xx |-> Append(acc.xx, <<i, RNeg(cap)>>)],
                  i + 1)
           ELSE RestoreFund(self, wrap_size, data_sizes, acc, i + 1)

\* switch_zero, lines 432-442: what each sized carton can take below its maximum
RECURSIVE CollapseAbsorb(_, _, _, _, _)
CollapseAbsorb(self, wrap_size, data_sizes, acc, i) ==
  IF i > Len(data_sizes) \/ RLe(acc.cap_, Zero) THEN acc
  ELSE IF IsNone(data_sizes[i][2]) THEN CollapseAbsorb(self, wrap_size, data_sizes, acc, i + 1)
  ELSE LET max == _max(self, data_sizes[i][1], wrap_size)
           cap == IF IsSome(max)
                  THEN RMin(RMax(RSub(Unwrap(max), Unwrap(data_sizes[i][2])), Zero), acc.cap_)
                  ELSE acc.cap_
       IN  CollapseAbsorb(self, wrap_size, data_sizes,
             [cap_ |-> RSub(acc.cap_, cap), xx |-> Append(acc.xx, <<i, cap>>)], i + 1)

\* switch_zero, lines 390-423 (on): [changed, ds, zeroed_cache]
SwitchZeroOn(self, wrap_size, ds0, data, index) ==
  LET size == ds0[index][2]
      same == [changed |-> FALSE, ds |-> ds0, zeroed_cache |-> self.zeroed_cache]
      cache == _zeroed_cache(self, data, wrap_size)
      min == _min(self, data, wrap_size)
  IN  IF IsSome(size) THEN same
      ELSE IF self.independent
      THEN IF RGe(cache, min)
           THEN [changed |-> TRUE,
                 ds |-> SetSize(ds0, index, Some(cache)),
                 zeroed_cache |-> remove(self.zeroed_cache, data)]
           ELSE same
      ELSE LET a == RestoreFund(self, wrap_size, ds0, [cap_ |-> cache, xx |-> <<>>], 1)
               cap == RMin(cache, RSub(cache, a.cap_))
           IN  IF RGe(cap, min)
               THEN [changed |-> TRUE,
                     ds |-> AddCaps(SetSize(ds0, index, Some(cap)), a.xx, 1),
                     zeroed_cache |-> remove(self.zeroed_cache, data)]
               ELSE same

\* a variant of SwitchZeroOff that caches the ratio before it has verified
\* that the freed size can be absorbed
SwitchZeroOff_cache_first(self, wrap_size, ds0, data, index) ==
  LET size == ds0[index][2]
      same == [changed |-> FALSE, ds |-> ds0, zeroed_cache |-> self.zeroed_cache]
  IN  IF IsNone(size) \/ ~get(self.allow_zero, data) THEN same
      ELSE LET zc == insert(self.zeroed_cache, data, RDiv(Unwrap(size), wrap_size))
               a == CollapseAbsorb(self, wrap_size, ds0,
                                   [cap_ |-> Unwrap(size), xx |-> <<>>], 1)
           IN  IF self.independent
               THEN [changed |-> TRUE, ds |-> SetSize(ds0, index, None), zeroed_cache |-> zc]
               ELSE IF a.cap_ = Zero
               THEN [changed |-> TRUE,
                     ds |-> AddCaps(SetSize(ds0, index, None), a.xx, 1),
                     zeroed_cache |-> zc]
               ELSE [same EXCEPT !.zeroed_cache = zc]

\* switch_zero, lines 424-453 (off): [changed, ds, zeroed_cache]
SwitchZeroOff(self, wrap_size, ds0, data, index) ==
  LET size == ds0[index][2]
      same == [changed |-> FALSE, ds |-> ds0, zeroed_cache |-> self.zeroed_cache]
  IN  IF IsNone(size) \/ ~get(self.allow_zero, data) THEN same
      ELSE IF self.independent
      THEN [changed |-> TRUE,
            ds |-> SetSize(ds0, index, None),
            zeroed_cache |-> insert(self.zeroed_cache, data, RDiv(Unwrap(size), wrap_size))]
      ELSE LET a == CollapseAbsorb(self, wrap_size, ds0,
                                   [cap_ |-> Unwrap(size), xx |-> <<>>], 1)
           IN  IF a.cap_ = Zero
               THEN [changed |-> TRUE,
                     ds |-> AddCaps(SetSize(ds0, index, None), a.xx, 1),
                     zeroed_cache |-> insert(self.zeroed_cache, data,
                                             RDiv(Unwrap(size), wrap_size))]
               ELSE same

\* switch_zero: [res |-> "Ok", "Ignore" or "Msg", complex, style]; complex
\* is self as the call leaves it (switch_zero takes &mut self)
switch_zero(self, style, wrap_size, datas, data, on) ==
  LET index == IndexOf(datas, data)
      ds0 == MeasuredSizes(self, style, datas)
      switched(ch, self1) ==
        LET filled(adj) ==
              [res |-> "Ok",
               complex |-> [self1 EXCEPT !.metric = new_from(adj.sizes, adj.total)],
               style |-> update_style(style, adj.sizes, 1)]
        IN  IF ~ch.changed THEN [res |-> "Ignore", complex |-> self1, style |-> style]
            ELSE CHOOSE o11 \in {filled(v11) : v11 \in {IF self.independent
                      THEN [sizes |-> ch.ds, total |-> get_total_size(ch.ds)]
                      ELSE adjust_to_fill_blank(self1, wrap_size, ch.ds)}} : TRUE
      switch(ch) ==
        switched(ch, [self EXCEPT !.zeroed_cache = ch.zeroed_cache])
  IN  IF index = 0 THEN [res |-> "Msg", complex |-> self, style |-> style]
      ELSE CHOOSE o12 \in {switch(v12) : v12 \in {IF on THEN SwitchZeroOn(self, wrap_size, ds0, data, index)
                ELSE SwitchZeroOff(self, wrap_size, ds0, data, index)}} : TRUE

(***************************************************************************)
(* The state machine.                                                      *)
(*                                                                         *)
(* scn        the scenario, fixed by Init: the cartons of the wrap in DOM  *)
(*            order (datas) and the sets the inputs are drawn from         *)
(* complex    the CartonsComplex held by the signal `complex`              *)
(* wrap_size  the client size of the wrap element                          *)
(* style      None until the first wrap effect has written the cartons'    *)
(*            style; then the size and front position of each carton as    *)
(*            written ("{:.2}px")                                          *)
(* pos, shift, cache   the three Box::into_raw cells of each resizer       *)
(* resizing   each resizer's `resizing` signal                             *)
(* doc        the resizers whose pointermove / pointerup listeners are on  *)
(*            the document, in the order they were added                   *)
(* last       the last handler run: its name, arguments and result         *)
(* steps      the number of handlers run                                   *)
(***************************************************************************)
VARIABLES scn, complex, wrap_size, style, pos, shift, cache, resizing, doc, last, steps,
          call

vars ==
  <<scn, complex, wrap_size, style, pos, shift, cache, resizing, doc, last, steps, call>>

\* the number of handler runs explored
MaxSteps ==
  4

Ids(datas) ==
  {datas[i] : i \in 1..Len(datas)}

Last(op, data, delta, res, path) ==
  [op |-> op, data |-> data, delta |-> delta, res |-> res, path |-> path]

\* get_elem_front(resizer): a resizer sits at the rear edge of its carton, and
\* the wrap's own front is the origin; the resizer of a data that no carton
\* of the wrap carries sits at the wrap's front
get_elem_front(st, r) ==
  IF r \in DOMAIN st THEN RAdd(st[r].pos, st[r].size) ELSE Zero

\* init_wrap's effect: wrap_effect_on_update, then complex.metric = metric on Ok
WrapEffect(w, resolved) ==
  /\ steps < MaxSteps
  /\ IF resolved
     THEN \E r \in {wrap_effect_on_update(complex, R(w), scn.datas)} :
              /\ wrap_size' = R(w)
              /\ complex' = [complex EXCEPT !.metric = r.metric]
              /\ style' = update_style(IF style = None
                                        THEN [d \in Ids(scn.datas) |->
                                                [size |-> Zero, pos |-> Zero]]
                                        ELSE style,
                                        r.sizes, 1)
              /\ last' = Last("wrap_effect_on_update", None, None, "Ok", "")
     ELSE /\ last' = Last("wrap_effect_on_update", None, None, "Ignore", "")
          /\ UNCHANGED <<wrap_size, complex, style>>
  /\ steps' = steps + 1
  /\ UNCHANGED <<scn, pos, shift, cache, resizing, doc, call>>

\* the pointerdown listener of resizer r (pointer_down_move_up's cb_down, then
\* init_resizer's pointer_down), the pointer at client position x
PointerDown(r, x) ==
  /\ steps < MaxSteps
  /\ style # None
  /\ r \in DOMAIN shift
  /\ scn.overlap \/ doc = <<>>
  /\ doc' = IF \E k \in 1..Len(doc) : doc[k] = r THEN doc ELSE Append(doc, r)
  /\ shift' = [shift EXCEPT ![r] = Some(RSub(R(x), get_elem_front(style, r)))]
  /\ pos' = [pos EXCEPT ![r] = Some(R(x))]
  /\ resizing' = [resizing EXCEPT ![r] = TRUE]
  /\ last' = Last("pointer_down", Some(r), None, "Ok", "")
  /\ steps' = steps + 1
  /\ UNCHANGED <<scn, complex, wrap_size, style, cache, call>>

\* a variant of pointer_move that resizes whatever the signs of moving and delta
pointer_move_any_direction(S, r, x) ==
  IF IsNone(S.shift[r])
  THEN [S EXCEPT !.last = Last("resize_work", Some(r), None, "Ignore", "shift")]
  ELSE
  LET front == RSub(get_elem_front(S.style, r), Unwrap(S.shift[r]))
      client_pos == R(x)
      delta == RSub(client_pos, front)
      S1 == [S EXCEPT !.pos[r] = Some(client_pos)]
  IN  IF IsNone(S.pos[r])
      THEN [S1 EXCEPT !.last = Last("resize_work", Some(r), Some(delta), "Ignore", "pos")]
      ELSE
      LET moving == RSub(client_pos, Unwrap(S.pos[r]))
      IN  IF moving = Zero /\ delta = Zero
          THEN [S1 EXCEPT !.last = Last("resize_work", Some(r), Some(delta), "Ignore", "moving")]
          ELSE
          LET done(u) ==
                LET zc1 == [k \in (DOMAIN S.complex.zeroed_cache.map) \ u.zr |->
                              S.complex.zeroed_cache.map[k]]
                    zc2 == [k \in (DOMAIN zc1) \cup (DOMAIN u.zc) |->
                              IF k \in DOMAIN u.zc THEN u.zc[k] ELSE zc1[k]]
                IN  IF u.res # "Ok"
                    THEN [S1 EXCEPT !.cache[r] = u.cache,
                                    !.last = Last("resize_work", Some(r), Some(delta),
                                                  u.res, u.path)]
                    ELSE [S1 EXCEPT !.complex.metric = u.metric,
                                    !.complex.zeroed_cache.map = zc2,
                                    !.style = u.style,
                                    !.cache[r] = u.cache,
                                    !.last = Last("resize_work", Some(r), Some(delta),
                                                  "Ok", u.path)]
          IN  CHOOSE o13a \in {done(v13a) : v13a \in {update_resize(S.complex, S.style, wrap_size, scn.datas, r, delta,
                                 S.cache[r])}} : TRUE

\* resize_work and the pointer_move closure of resizer r on the state S =
\* [complex, style, pos, shift, cache, last], the pointer at client position x
pointer_move(S, r, x) ==
  IF IsNone(S.shift[r])
  THEN [S EXCEPT !.last = Last("resize_work", Some(r), None, "Ignore", "shift")]
  ELSE
  LET front == RSub(get_elem_front(S.style, r), Unwrap(S.shift[r]))
      client_pos == R(x)
      delta == RSub(client_pos, front)
      S1 == [S EXCEPT !.pos[r] = Some(client_pos)]
  IN  IF IsNone(S.pos[r])
      THEN [S1 EXCEPT !.last = Last("resize_work", Some(r), Some(delta), "Ignore", "pos")]
      ELSE
      LET moving == RSub(client_pos, Unwrap(S.pos[r]))
      IN  IF moving = Zero \/ delta = Zero \/ (RGt(moving, Zero) # RGt(delta, Zero))
          THEN [S1 EXCEPT !.last = Last("resize_work", Some(r), Some(delta), "Ignore", "moving")]
          ELSE
          LET done(u) ==
                LET zc1 == [k \in (DOMAIN S.complex.zeroed_cache.map) \ u.zr |->
                              S.complex.zeroed_cache.map[k]]
                    zc2 == [k \in (DOMAIN zc1) \cup (DOMAIN u.zc) |->
                              IF k \in DOMAIN u.zc THEN u.zc[k] ELSE zc1[k]]
                IN  IF u.res # "Ok"
                    THEN [S1 EXCEPT !.cache[r] = u.cache,
                                    !.last = Last("resize_work", Some(r), Some(delta),
                                                  u.res, u.path)]
                    ELSE [S1 EXCEPT !.complex.metric = u.metric,
                                    !.complex.zeroed_cache.map = zc2,
                                    !.style = u.style,
                                    !.cache[r] = u.cache,
                                    !.last = Last("resize_work", Some(r), Some(delta),
                                                  "Ok", u.path)]
          IN  CHOOSE o13 \in {done(v13) : v13 \in {update_resize(S.complex, S.style, wrap_size, scn.datas, r, delta,
                                 S.cache[r])}} : TRUE

RECURSIVE MoveAll(_, _, _, _)
MoveAll(S, listeners, x, k) ==
  IF k > Len(listeners) THEN S
  ELSE CHOOSE o14 \in {MoveAll(S1, listeners, x, k + 1) : S1 \in {pointer_move(S, listeners[k], x)}} : TRUE

\* a pointermove event on the document at client position x: the cb_move of
\* every resizer listening runs, in the order the listeners were added
PointerMove(x) ==
  /\ steps < MaxSteps
  /\ doc # <<>>
  /\ \E S \in {MoveAll([complex |-> complex, style |-> style, pos |-> pos,
                         shift |-> shift, cache |-> cache, last |-> last], doc, x, 1)} :
         /\ complex' = S.complex
         /\ style' = S.style
         /\ pos' = S.pos
         /\ shift' = S.shift
         /\ cache' = S.cache
         /\ last' = S.last
  /\ steps' = steps + 1
  /\ UNCHANGED <<scn, wrap_size, resizing, doc, call>>

\* a variant of PointerUp whose pointer_up leaves the session cache as it is
PointerUp_keeps_cache ==
  /\ steps < MaxSteps
  /\ doc # <<>>
  /\ LET up == Ids(doc)
     IN  /\ shift' = [r \in DOMAIN shift |-> IF r \in up THEN None ELSE shift[r]]
         /\ pos' = [r \in DOMAIN pos |-> IF r \in up THEN None ELSE pos[r]]
         /\ resizing' = [r \in DOMAIN resizing |-> IF r \in up THEN FALSE ELSE resizing[r]]
  /\ doc' = <<>>
  /\ last' = Last("pointer_up", None, None, "Ok", "")
  /\ steps' = steps + 1
  /\ UNCHANGED <<scn, complex, wrap_size, style, cache, call>>

\* a variant of PointerUp whose pointer_up leaves shift and pos as they are
PointerUp_keeps_shift ==
  /\ steps < MaxSteps
  /\ doc # <<>>
  /\ LET up == Ids(doc)
     IN  /\ cache' = [r \in DOMAIN cache |-> IF r \in up THEN <<>> ELSE cache[r]]
         /\ resizing' = [r \in DOMAIN resizing |-> IF r \in up THEN FALSE ELSE resizing[r]]
  /\ doc' = <<>>
  /\ last' = Last("pointer_up", None, None, "Ok", "")
  /\ steps' = steps + 1
  /\ UNCHANGED <<scn, complex, wrap_size, style, pos, shift, call>>

\* a pointerup event on the document: the cb_up of every resizer listening
\* runs (init_resizer's pointer_up, then both listeners are removed)
PointerUp ==
  /\ steps < MaxSteps
  /\ doc # <<>>
  /\ LET up == Ids(doc)
     IN  /\ cache' = [r \in DOMAIN cache |-> IF r \in up THEN <<>> ELSE cache[r]]
         /\ shift' = [r \in DOMAIN shift |-> IF r \in up THEN None ELSE shift[r]]
         /\ pos' = [r \in DOMAIN pos |-> IF r \in up THEN None ELSE pos[r]]
         /\ resizing' = [r \in DOMAIN resizing |-> IF r \in up THEN FALSE ELSE resizing[r]]
  /\ doc' = <<>>
  /\ last' = Last("pointer_up", None, None, "Ok", "")
  /\ steps' = steps + 1
  /\ UNCHANGED <<scn, complex, wrap_size, style, call>>

\* complex.update(|complex| complex.switch_zero(wrap, &data, on))
SwitchZero(data, on) ==
  /\ steps < MaxSteps
  /\ style # None
  /\ \E r \in {switch_zero(complex, style, wrap_size, scn.datas, data, on)} :
         /\ complex' = r.complex
         /\ style' = r.style
         /\ last' = Last("switch_zero", Some(data), None, r.res, IF on THEN "on" ELSE "off")
  /\ steps' = steps + 1
  /\ UNCHANGED <<scn, wrap_size, pos, shift, cache, resizing, doc, call>>

\* the client position of a pointerdown on resizer r: on the resizer
DownAt(r) ==
  IF style = None THEN {}
  ELSE {RFloor(get_elem_front(style, r))[1] + h : h \in scn.hits}

\* the client position of a pointermove: m away from the last pointer event
MoveTo ==
  IF doc = <<>> THEN {}
  ELSE {Unwrap(pos[doc[1]])[1] + m : m \in scn.moves}

Next ==
  \/ \E w \in scn.wraps, resolved \in scn.resolves : WrapEffect(w, resolved)
  \/ \E r \in scn.resizers : \E x \in DownAt(r) : PointerDown(r, x)
  \/ \E x \in MoveTo : PointerMove(x)
  \/ PointerUp
  \/ \E data \in scn.switch, on \in BOOLEAN : SwitchZero(data, on)

(***************************************************************************)
(* Scenarios: the CartonsComplex as constructed (CartonsComplex::new) and  *)
(* the sets the inputs are drawn from.                                     *)
(***************************************************************************)
NoMap ==
  <<>>

CartonsComplex_new(independent, metric, min, max, allow_zero, zeroed_when, zeroed_cache) ==
  [independent |-> independent, metric |-> metric, min |-> min, max |-> max,
   allow_zero |-> allow_zero, zeroed_when |-> zeroed_when, zeroed_cache |-> zeroed_cache]

Scenario(name, complex0, datas, wraps, resolves, resizers, moves, switch) ==
  [name |-> name, complex0 |-> complex0, datas |-> datas, wraps |-> wraps,
   resolves |-> resolves, resizers |-> resizers, hits |-> {0}, moves |-> moves,
   switch |-> switch, overlap |-> FALSE]

\* dependent mode, every carton sized by a ratio, the ratios summing to 9/10
DepRel ==
  Scenario("DepRel",
    CartonsComplex_new(FALSE,
      CartonsMap_new(0 :> Some(Sizon_rel(Q(1, 5))) @@ 1 :> Some(Sizon_rel(Q(3, 10)))
                     @@ 2 :> Some(Sizon_rel(Q(2, 5))), None),
      CartonsMap_new(NoMap, Sizon_abs(R(2))),
      CartonsMap_new(2 :> Sizon_rel(Q(1, 2)), Sizon_default),
      CartonsMap_new(0 :> TRUE @@ 2 :> TRUE, FALSE),
      CartonsMap_new(NoMap, Sizon_abs(R(1))),
      CartonsMap_new(NoMap, Q(1, 10))),
    <<0, 1, 2>>, {10, 12}, {TRUE}, {0, 1}, {-2, -1, 1, 2}, {0, 1, 2})

\* dependent mode, cartons 0 and 2 sized in pixels only, carton 1 zeroed
DepAbs ==
  Scenario("DepAbs",
    CartonsComplex_new(FALSE,
      CartonsMap_new(0 :> Some(Sizon_abs(R(3))) @@ 1 :> None
                     @@ 2 :> Some(Sizon_new(Some(R(4)), Some(Q(2, 5)))), None),
      CartonsMap_new(1 :> Sizon_new(Some(R(1)), Some(Q(1, 8))), Sizon_abs(R(2))),
      CartonsMap_new(0 :> Sizon_abs(R(6)), Sizon_rel(Q(3, 5))),
      CartonsMap_new(NoMap, TRUE),
      CartonsMap_new(NoMap, Sizon_new(Some(Q(1, 2)), Some(Q(1, 4)))),
      CartonsMap_new(NoMap, Q(1, 4))),
    <<0, 1, 2>>, {10, 12}, {TRUE}, {0, 1}, {-2, -1, 1, 2}, {0, 1})

\* independent mode: carton 0 at its minimum, carton 1 zeroed, carton 2 not
\* collapsible; the threshold of the zeroed_when example (minimum 30, threshold 10)
IndHyst ==
  Scenario("IndHyst",
    CartonsComplex_new(TRUE,
      CartonsMap_new(0 :> Some(Sizon_abs(R(30))) @@ 1 :> None
                     @@ 2 :> Some(Sizon_abs(R(35))), None),
      CartonsMap_new(NoMap, Sizon_abs(R(30))),
      CartonsMap_new(1 :> Sizon_abs(R(35)), Sizon_default),
      CartonsMap_new(2 :> FALSE, TRUE),
      CartonsMap_new(NoMap, Sizon_abs(R(10))),
      CartonsMap_new(NoMap, Q(2, 5))),
    <<0, 1, 2>>, {100, 120}, {TRUE, FALSE}, {0, 1, 2}, {-11, -10, -9, 9, 10, 11}, {1, 2, 3})

\* dependent mode, three cartons of a third of the wrap each (100 of 300), the
\* minimum 50 each, a maximum of 105 on carton 0 only; carton 2 alone may be
\* zeroed
DepCache ==
  Scenario("DepCache",
    CartonsComplex_new(FALSE,
      CartonsMap_new(0 :> Some(Sizon_rel(Q(1, 3))) @@ 1 :> Some(Sizon_rel(Q(1, 3)))
                     @@ 2 :> Some(Sizon_rel(Q(1, 3))), None),
      CartonsMap_new(NoMap, Sizon_abs(R(50))),
      CartonsMap_new(0 :> Sizon_abs(R(105)), Sizon_default),
      CartonsMap_new(2 :> TRUE, FALSE),
      CartonsMap_new(NoMap, Sizon_abs(R(10))),
      CartonsMap_new(NoMap, Q(1, 5))),
    <<0, 1, 2>>, {300}, {TRUE}, {0, 1}, {-60, -40, 20, 40, 80}, {2})

\* independent mode, the minimum 50: carton 0 at its minimum and not
\* collapsible, carton 1 above it, carton 2 at its minimum and collapsible;
\* a resizer and a switch name the data 3, which no carton of the wrap carries
IndFloor ==
  Scenario("IndFloor",
    CartonsComplex_new(TRUE,
      CartonsMap_new(0 :> Some(Sizon_abs(R(50))) @@ 1 :> Some(Sizon_abs(R(80)))
                     @@ 2 :> Some(Sizon_abs(R(50))), None),
      CartonsMap_new(NoMap, Sizon_abs(R(50))),
      CartonsMap_new(1 :> Sizon_abs(R(90)), Sizon_default),
      CartonsMap_new(0 :> FALSE, TRUE),
      CartonsMap_new(NoMap, Sizon_abs(R(10))),
      CartonsMap_new(NoMap, Q(3, 10))),
    <<0, 1, 2>>, {200}, {TRUE, FALSE}, {0, 1, 2, 3}, {-20, 20}, {1, 2, 3})

\* dependent mode, two cartons of 40 with the maximum 60
DepFill ==
  Scenario("DepFill",
    CartonsComplex_new(FALSE,
      CartonsMap_new(0 :> Some(Sizon_abs(R(40))) @@ 1 :> Some(Sizon_abs(R(40))), None),
      CartonsMap_new(NoMap, Sizon_abs(R(20))),
      CartonsMap_new(NoMap, Sizon_abs(R(60))),
      CartonsMap_new(NoMap, FALSE),
      CartonsMap_new(NoMap, Sizon_abs(R(10))),
      CartonsMap_new(NoMap, Q(1, 5))),
    <<0, 1>>, {100, 150}, {TRUE}, {0}, {-10, 10}, {0})

\* dependent mode, every carton collapsible: carton 0 at its minimum 50,
\* carton 1 30 below its max, carton 2 at its minimum 130 and 10 below its max
DepZero ==
  Scenario("DepZero",
    CartonsComplex_new(FALSE,
      CartonsMap_new(0 :> Some(Sizon_abs(R(50))) @@ 1 :> Some(Sizon_abs(R(120)))
                     @@ 2 :> Some(Sizon_abs(R(130))), None),
      CartonsMap_new(2 :> Sizon_abs(R(130)), Sizon_abs(R(50))),
      CartonsMap_new(1 :> Sizon_abs(R(150)) @@ 2 :> Sizon_abs(R(140)), Sizon_default),
      CartonsMap_new(NoMap, TRUE),
      CartonsMap_new(NoMap, Sizon_abs(R(10))),
      CartonsMap_new(NoMap, Q(1, 5))),
    <<0, 1, 2>>, {300}, {TRUE}, {0, 1}, {-20, 20}, {2})

\* DepZero with the make_zero / zero_restore buttons of cartons 0 and 2
DepToggle ==
  [DepZero EXCEPT !.name = "DepToggle", !.switch = {0, 2}]

\* dependent mode, carton 1 zeroed from the start and not allowed to be
\* zeroed or restored by a drag; carton 0 alone may be zeroed
DepHidden ==
  Scenario("DepHidden",
    CartonsComplex_new(FALSE,
      CartonsMap_new(0 :> Some(Sizon_abs(R(100))) @@ 1 :> None
                     @@ 2 :> Some(Sizon_abs(R(100))), None),
      CartonsMap_new(NoMap, Sizon_abs(R(50))),
      CartonsMap_new(NoMap, Sizon_default),
      CartonsMap_new(0 :> TRUE, FALSE),
      CartonsMap_new(NoMap, Sizon_abs(R(10))),
      CartonsMap_new(NoMap, Q(3, 10))),
    <<0, 1, 2>>, {200}, {TRUE}, {0, 1}, {-20, 20}, {1})

\* dependent mode, four cartons in 130: cartons 1 and 3 zeroed, the zeroed_cache
\* ratio 1/2 (65) more than cartons 0 and 2 can give above their minimum 50
\* (10 + 20); the minimum of carton 1 is 20, that of carton 3 is 50
DepRestore ==
  Scenario("DepRestore",
    CartonsComplex_new(FALSE,
      CartonsMap_new(0 :> Some(Sizon_abs(R(60))) @@ 1 :> None
                     @@ 2 :> Some(Sizon_abs(R(70))) @@ 3 :> None, None),
      CartonsMap_new(1 :> Sizon_abs(R(20)), Sizon_abs(R(50))),
      CartonsMap_new(NoMap, Sizon_default),
      CartonsMap_new(NoMap, TRUE),
      CartonsMap_new(NoMap, Sizon_abs(R(10))),
      CartonsMap_new(NoMap, Q(1, 2))),
    <<0, 1, 2, 3>>, {130}, {TRUE}, {0}, {-10, 10}, {1, 3})

\* no pure function has been called
NoCall ==
  [fn |-> "none"]

InitOf(scenarios) ==
  /\ scn \in scenarios
  /\ complex = scn.complex0
  /\ wrap_size = None
  /\ style = None
  /\ pos = [r \in Ids(scn.datas) \cup scn.resizers |-> None]
  /\ shift = [r \in Ids(scn.datas) \cup scn.resizers |-> None]
  /\ cache = [r \in Ids(scn.datas) \cup scn.resizers |-> <<>>]
  /\ resizing = [r \in Ids(scn.datas) \cup scn.resizers |-> FALSE]
  /\ doc = <<>>
  /\ last = Last("new", None, None, "Ok", "")
  /\ steps = 0
  /\ call = NoCall

Init ==
  InitOf({DepRel, DepAbs, IndHyst})

Spec ==
  Init /\ [][Next]_vars

\* the scenarios of the worked examples, and DepAbs for sizes with a fraction
InitExamples ==
  InitOf({DepCache, IndFloor, DepFill, DepAbs, DepZero, DepHidden, DepRestore})

SpecExamples ==
  InitExamples /\ [][Next]_vars

\* the scenario of the toggle buttons
InitToggle ==
  InitOf({DepToggle})

SpecToggle ==
  InitToggle /\ [][Next]_vars

(***************************************************************************)
(* CartonsMap<usize, f64> on its own: a map is built from a Vec or from a  *)
(* (Vec, default) tuple, and get / insert / remove are called on it.       *)
(* call is the last call: its name, the list the map was built from, the   *)
(* arguments, what get returned and the map as the call leaves it.         *)
(***************************************************************************)
MapIds ==
  {0, 1, 2}

MapValues ==
  {0, 10, 20}

MaxList ==
  2

MapLists ==
  UNION {[1..n -> {0, 1} \X {10, 20}] : n \in 0..MaxList}

MapCall(fn, list, data, value, out, map) ==
  [fn |-> fn, list |-> list, data |-> data, value |-> value, out |-> out,
   map |-> map]

\* the variables of the wrap, which no call on a map or a Sizon touches
Aside ==
  <<scn, complex, wrap_size, style, pos, shift, cache, resizing, doc, last, steps>>

InitAside ==
  /\ scn = DepRel
  /\ complex = scn.complex0
  /\ wrap_size = None
  /\ style = None
  /\ pos = [r \in Ids(scn.datas) \cup scn.resizers |-> None]
  /\ shift = [r \in Ids(scn.datas) \cup scn.resizers |-> None]
  /\ cache = [r \in Ids(scn.datas) \cup scn.resizers |-> <<>>]
  /\ resizing = [r \in Ids(scn.datas) \cup scn.resizers |-> FALSE]
  /\ doc = <<>>
  /\ last = Last("new", None, None, "Ok", "")
  /\ steps = 0

InitMap ==
  /\ InitAside
  /\ \/ \E list \in MapLists :
          call = MapCall("from_vec", list, 0, 0, 0,
                         CartonsMap_from_vec(list))
     \/ \E list \in MapLists, default \in MapValues :
          call = MapCall("from_tuple", list, 0, default, 0,
                         CartonsMap_from_tuple(list, default))

CallGet(data) ==
  /\ call' = MapCall("get", call.list, data, 0, get(call.map, data), call.map)
  /\ UNCHANGED Aside

CallInsert(data, value) ==
  /\ call' = MapCall("insert", call.list, data, value, 0,
                     insert(call.map, data, value))
  /\ UNCHANGED Aside

CallRemove(data) ==
  /\ call' = MapCall("remove", call.list, data, 0, 0,
                     remove(call.map, data))
  /\ UNCHANGED Aside

NextMap ==
  \/ \E data \in MapIds : CallGet(data)
  \/ \E data \in MapIds, value \in MapValues : CallInsert(data, value)
  \/ \E data \in MapIds : CallRemove(data)

SpecMap ==
  InitMap /\ [][NextMap]_vars

(***************************************************************************)
(* Sizon on its own: a Sizon is built by Sizon::new and min, max, min_abs  *)
(* and max_abs are called on it with a candidate c and a reference par.    *)
(* call is the last call: its name, the Sizon, the arguments and the       *)
(* value returned.                                                         *)
(***************************************************************************)
SizonAbs ==
  {None, Some(R(20)), Some(R(40))}

SizonRel ==
  {None, Some(Q(1, 10)), Some(Q(1, 2))}

SizonCandidates ==
  {R(10), R(30), R(60)}

SizonPars ==
  {None, Some(Zero), Some(R(100)), Some(R(-100)), Some(Inf), Some(NaN)}

SizonCall(fn, self, c, par, out) ==
  [fn |-> fn, self |-> self, c |-> c, par |-> par, out |-> out]

InitSizon ==
  /\ InitAside
  /\ \E abs \in SizonAbs, rel \in SizonRel :
       call = SizonCall("new", Sizon_new(abs, rel), Zero, None, Zero)

CallMin(c, par) ==
  /\ call' = SizonCall("min", call.self, c, par, Sizon_min(call.self, c, par))
  /\ UNCHANGED Aside

CallMax(c, par) ==
  /\ call' = SizonCall("max", call.self, c, par, Sizon_max(call.self, c, par))
  /\ UNCHANGED Aside

CallMinAbs(c) ==
  /\ call' = SizonCall("min_abs", call.self, c, None, min_abs(call.self, c))
  /\ UNCHANGED Aside

CallMaxAbs(c) ==
  /\ call' = SizonCall("max_abs", call.self, c, None, max_abs(call.self, c))
  /\ UNCHANGED Aside

NextSizon ==
  \/ \E c \in SizonCandidates, par \in SizonPars : CallMin(c, par)
  \/ \E c \in SizonCandidates, par \in SizonPars : CallMax(c, par)
  \/ \E c \in SizonCandidates : CallMinAbs(c)
  \/ \E c \in SizonCandidates : CallMaxAbs(c)

SpecSizon ==
  InitSizon /\ [][NextSizon]_vars

(***************************************************************************)
(* f64 as the build computes it.  A finite f64 >= 0 is m * 2^e, written    *)
(* [m |-> the bits of m, lowest first, e |-> e] with m odd (zero is        *)
(* [m |-> <<>>, e |-> 0]), so that a value has one representation.  Sums   *)
(* and differences are computed exactly and then rounded to 53 significant *)
(* bits, to nearest, ties to even (IEEE 754 binary64; the values used are  *)
(* far from the subnormal and overflow ranges).                            *)
(***************************************************************************)
Significand ==
  53

Bit(x, i) ==
  IF i \in DOMAIN x THEN x[i] ELSE 0

\* without its high zero bits
Trim(x) ==
  IF \A i \in DOMAIN x : x[i] = 0 THEN <<>>
  ELSE SubSeq(x, 1, CHOOSE i \in DOMAIN x :
                      x[i] = 1 /\ \A j \in (i + 1)..Len(x) : x[j] = 0)

\* the number of low zero bits of x, x not zero
LowZeros(x) ==
  IF \A i \in DOMAIN x : x[i] = 0 THEN 0
  ELSE (CHOOSE i \in DOMAIN x : x[i] = 1 /\ \A j \in 1..(i - 1) : x[j] = 0) - 1

\* the bits lo..hi of x + y with the carry c into bit lo: [s |-> the bits,
\* c |-> the carry out of bit hi], the lower half first
RECURSIVE BAdd(_, _, _, _, _)
BAdd(x, y, lo, hi, c) ==
  IF lo = hi
  THEN [s |-> <<(Bit(x, lo) + Bit(y, lo) + c) % 2>>,
        c |-> (Bit(x, lo) + Bit(y, lo) + c) \div 2]
  ELSE LET low  == BAdd(x, y, lo, (lo + hi) \div 2, c)
           high == BAdd(x, y, (lo + hi) \div 2 + 1, hi, low.c)
       IN  [s |-> low.s \o high.s, c |-> high.c]

\* x + y
BSum(x, y) ==
  IF x = <<>> /\ y = <<>> THEN <<>>
  ELSE LET sum == BAdd(x, y, 1, IF Len(x) < Len(y) THEN Len(y) ELSE Len(x), 0)
       IN  sum.s \o <<sum.c>>

\* the bits lo..hi of x - y with the borrow b from bit lo: [s |-> the bits,
\* b |-> the borrow from bit hi + 1], the lower half first
RECURSIVE BSub(_, _, _, _, _)
BSub(x, y, lo, hi, b) ==
  IF lo = hi
  THEN [s |-> <<(Bit(x, lo) - Bit(y, lo) - b + 2) % 2>>,
        b |-> IF Bit(x, lo) - Bit(y, lo) - b < 0 THEN 1 ELSE 0]
  ELSE LET low  == BSub(x, y, lo, (lo + hi) \div 2, b)
           high == BSub(x, y, (lo + hi) \div 2 + 1, hi, low.b)
       IN  [s |-> low.s \o high.s, b |-> high.b]

\* x - y for x >= y
BDiff(x, y) ==
  IF x = <<>> THEN <<>> ELSE BSub(x, y, 1, Len(x), 0).s

\* x < y, both without high zero bits
BLt(x, y) ==
  \/ Len(x) < Len(y)
  \/ /\ Len(x) = Len(y)
     /\ \E i \in DOMAIN x :
          /\ x[i] < y[i]
          /\ \A j \in (i + 1)..Len(x) : x[j] = y[j]

ShiftL(x, k) ==
  IF x = <<>> THEN <<>> ELSE [i \in 1..k |-> 0] \o x

FZero ==
  [m |-> <<>>, e |-> 0]

\* m * 2^e in its one representation
Canon(m, e) ==
  IF Trim(m) = <<>> THEN FZero
  ELSE [m |-> SubSeq(Trim(m), LowZeros(m) + 1, Len(Trim(m))), e |-> e + LowZeros(m)]

\* the bits of a at exponent e <= a.e
Al(a, e) ==
  ShiftL(a.m, a.e - e)

LowE(a, b) ==
  IF a.e < b.e THEN a.e ELSE b.e

\* a < b, a <= b, on the values of the operands
FLt(a, b) ==
  \E x \in {a}, y \in {b} : BLt(Al(x, LowE(x, y)), Al(y, LowE(x, y)))

FLe(a, b) ==
  ~FLt(b, a)

\* round to 53 significant bits, to nearest, ties to even
Round53(v) ==
  IF Len(v.m) <= Significand THEN v
  ELSE LET k      == Len(v.m) - Significand
           kept   == SubSeq(v.m, k + 1, Len(v.m))
           sticky == \E i \in 1..(k - 1) : v.m[i] = 1
           up     == v.m[k] = 1 /\ (sticky \/ kept[1] = 1)
       IN  Canon(IF up THEN BSum(kept, <<1>>) ELSE kept, v.e + k)

\* the f64 a + b, on the values of the operands
FAdd(a, b) ==
  CHOOSE sum \in {Round53(Canon(BSum(Al(x, LowE(x, y)), Al(y, LowE(x, y))),
                                LowE(x, y))) : x \in {a}, y \in {b}} : TRUE

\* the f64 a - b for a >= b, on the values of the operands
FSub(a, b) ==
  CHOOSE diff \in {Round53(Canon(BDiff(Al(x, LowE(x, y)), Al(y, LowE(x, y))),
                                 LowE(x, y))) : x \in {a}, y \in {b}} : TRUE

\* f64::min
FMin(a, b) ==
  IF FLt(b, a) THEN b ELSE a

\* the bits, lowest first, of the number written in hexadecimal digits
RECURSIVE HexBits(_)
HexBits(digits) ==
  IF digits = <<>> THEN <<>>
  ELSE LET h == digits[Len(digits)]
       IN  <<h % 2, (h \div 2) % 2, (h \div 4) % 2, h \div 8>>
             \o HexBits(SubSeq(digits, 1, Len(digits) - 1))

\* the f64 written 0xd.ddd...p+p in hexadecimal, digits its digits d
F64(digits, p) ==
  Canon(HexBits(digits), p - 4 * (Len(digits) - 1))

(***************************************************************************)
(* The do_shrink closure of dependent_resizing on f64 sizes.  shrinks is   *)
(* the shrink set, nearest to the boundary first, each carton a record     *)
(* [size |-> Option<f64>, min |-> the f64 of _min, zeroed_when |-> the     *)
(* Option<f64> of _zeroed_when]; do_shrink is entered with a capacity      *)
(* above 0 and at most max_shrink_cap.                                     *)
(***************************************************************************)
\* handle_shrinking with delta = -x, x > 0, on a sized carton:
\* [res |-> Option<f64>, size |-> the carton's entry of data_sizes after it]
handle_shrinking_f64(c, x) ==
  LET size     == Unwrap(c.size)
      new_size == FSub(size, x)
  IN  IF FLt(new_size, c.min)
      THEN IF IsSome(c.zeroed_when) /\ FLt(Unwrap(c.zeroed_when), x)
           THEN [res |-> Some(FZero), size |-> None]
           ELSE [res |-> None, size |-> c.size]
      ELSE [res |-> Some(new_size), size |-> Some(new_size)]

\* do_shrink from the k-th carton of shrinks on: the sizes after it.  A
\* capacity that the code leaves at or below 0 is left at 0 here
RECURSIVE do_shrink_f64(_, _, _)
do_shrink_f64(capacity, shrinks, k) ==
  IF k > Len(shrinks) \/ FLe(capacity, FZero) THEN <<>>
  ELSE LET c == shrinks[k]
       IN  IF IsNone(c.size) \/ FLe(Unwrap(c.size), c.min)
           THEN <<c.size>> \o do_shrink_f64(capacity, shrinks, k + 1)
           ELSE LET h   == handle_shrinking_f64(c, FMin(FSub(Unwrap(c.size), c.min),
                                                       capacity))
                    cap == FSub(Unwrap(c.size), Unwrap(h.res))
                IN  <<h.size>> \o
                    do_shrink_f64(IF IsNone(h.res) THEN capacity
                                  ELSE IF FLe(capacity, cap) THEN FZero
                                  ELSE FSub(capacity, cap),
                                  shrinks, k + 1)

\* the sizes of the whole shrink set after do_shrink(capacity, shrinks)
do_shrink_sizes(capacity, shrinks) ==
  LET done == do_shrink_f64(capacity, shrinks, 1)
  IN  [k \in 1..Len(shrinks) |-> IF k <= Len(done) THEN done[k] ELSE shrinks[k].size]

\* max_shrink_cap, folded over the cartons k.. of shrinks from acc
RECURSIVE max_shrink_cap_f64(_, _, _)
max_shrink_cap_f64(shrinks, k, acc) ==
  IF k > Len(shrinks) THEN acc
  ELSE max_shrink_cap_f64(shrinks, k + 1,
         IF IsSome(shrinks[k].size) /\ FLt(shrinks[k].min, Unwrap(shrinks[k].size))
         THEN FAdd(acc, FSub(Unwrap(shrinks[k].size), shrinks[k].min))
         ELSE acc)


(***************************************************************************)
(* do_shrink on its own: a shrink set of two sized cartons is measured,    *)
(* and do_shrink is called on it with a capacity above 0 and at most       *)
(* max_shrink_cap.  call is the last call: its name, the shrink set as     *)
(* measured, the capacity, and the sizes of the shrink set after the call. *)
(***************************************************************************)
\* 100.0, 60.5, 25.25
ShrinkSizes ==
  {F64(<<1, 9>>, 6), F64(<<1, 14, 4>>, 5), F64(<<1, 9, 4>>, 4)}

\* 20.1 (as of Sizon::abs(20.1), or of Sizon::rel(0.1) in a wrap of 201) and 50.0
ShrinkMins ==
  {F64(<<1, 4, 1, 9, 9, 9, 9, 9, 9, 9, 9, 9, 9, 10>>, 4), F64(<<1, 9>>, 5)}

\* not allowed to be zeroed, or allowed with a zeroed_when of 10.0
ShrinkZeroedWhens ==
  {None, Some(F64(<<1, 4>>, 3))}

\* 5.0, 30.0, 85.0
ShrinkCapacities ==
  {F64(<<1, 4>>, 2), F64(<<1, 14>>, 4), F64(<<1, 5, 4>>, 6)}

ShrinkCartons ==
  [size : {Some(x) : x \in ShrinkSizes}, min : ShrinkMins,
   zeroed_when : ShrinkZeroedWhens]

ShrinkCall(fn, shrinks, capacity, out) ==
  [fn |-> fn, shrinks |-> shrinks, capacity |-> capacity, out |-> out]

InitShrink ==
  /\ InitAside
  /\ \E c1 \in ShrinkCartons, c2 \in ShrinkCartons :
       call = ShrinkCall("measures", <<c1, c2>>, FZero, <<c1.size, c2.size>>)

CallDoShrink(capacity) ==
  /\ call.fn = "measures"
  /\ FLe(capacity, max_shrink_cap_f64(call.shrinks, 1, FZero))
  /\ call' = ShrinkCall("do_shrink", call.shrinks, capacity,
                        do_shrink_sizes(capacity, call.shrinks))
  /\ UNCHANGED Aside

NextShrink ==
  \E capacity \in ShrinkCapacities : CallDoShrink(capacity)

SpecShrink ==
  InitShrink /\ [][NextShrink]_vars

(***************************************************************************)
(* Vocabulary of the properties.                                           *)
(***************************************************************************)
\* the size state of a complex as data_sizes: the abs field of each sized
\* carton of the wrap, None for a zeroed one
StoredSizes(self, datas) ==
  [i \in 1..Len(datas) |->
     <<datas[i],
       IF IsSome(get(self.metric, datas[i]))
       THEN Unwrap(get(self.metric, datas[i])).abs
       ELSE None>>]

\* the sum of the sizes of the sized cartons in the size state
StoredTotal(self, datas) ==
  get_total_size(StoredSizes(self, datas))

Sized(self, data) ==
  IsSome(get(self.metric, data))

RECURSIVE SumMax(_, _, _, _)
SumMax(self, w, datas, i) ==
  IF i > Len(datas) THEN Zero
  ELSE RAdd(IF Sized(self, datas[i]) /\ IsSome(_max(self, datas[i], w))
            THEN Unwrap(_max(self, datas[i], w)) ELSE Zero,
            SumMax(self, w, datas, i + 1))

\* the aggregate max capacity of the sized cartons is at least w
MaxCapacityAtLeast(self, w, datas) ==
  \/ \E i \in 1..Len(datas) : Sized(self, datas[i]) /\ IsNone(_max(self, datas[i], w))
  \/ RGe(SumMax(self, w, datas, 1), w)

\* the last handler run was a reconcile that returned Ok
Reconciled ==
  last.op = "wrap_effect_on_update" /\ last.res = "Ok"

(***************************************************************************)
(* C1: in dependent mode, after a successful reconcile whose result is     *)
(* stored, the sizes of the sized cartons sum to the container extent      *)
(* whenever the aggregate max capacity is at least the extent.             *)
(* As stated this does not hold (C1_SumIsExtent): the blank is floored, so *)
(* the fraction of the blank is never handed out, and candidates that      *)
(* already exceed the extent are not shrunk.  What holds                   *)
(* (C1_SumIsExtentLessBlankFraction): with candidates summing to at most   *)
(* the extent, the sizes sum to the candidates' sum plus the whole part of *)
(* the blank -- more than extent - 1, at most the extent, and the extent   *)
(* itself when the blank is whole; candidates exceeding the extent are     *)
(* kept as they are.                                                       *)
(***************************************************************************)
C1_SumIsExtent ==
  (Reconciled /\ ~complex.independent
     /\ MaxCapacityAtLeast(complex, wrap_size, scn.datas))
  => StoredTotal(complex, scn.datas) = wrap_size

C1_SumIsExtentLessBlankFraction ==
  [][(Reconciled' /\ ~complex.independent
        /\ MaxCapacityAtLeast(complex', wrap_size', scn.datas))
     => LET cand  == get_total_size(Candidates(complex, wrap_size', scn.datas))
            total == StoredTotal(complex', scn.datas)
        IN  IF RLe(cand, wrap_size')
            THEN /\ total = RAdd(cand, RFloor(RSub(wrap_size', cand)))
                 /\ RGt(total, RSub(wrap_size', R(1)))
                 /\ RLe(total, wrap_size')
            ELSE total = cand]_vars

\* a dependent reconcile that handed out a blank and filled the extent
C1_Witness ==
  /\ Reconciled /\ ~complex.independent
  /\ MaxCapacityAtLeast(complex, wrap_size, scn.datas)
  /\ scn.name = "DepRel" /\ wrap_size = R(10)
  /\ StoredTotal(complex, scn.datas) = wrap_size

\* the sum of the sizes update_resize and switch_zero would measure
MeasuredTotal ==
  get_total_size(MeasuredSizes(complex, style, scn.datas))

StoredSize(self, data) ==
  Unwrap(Unwrap(get(self.metric, data)).abs)

\* the size of carton `data` lies within its limits resolved against w
WithinLimits(self, data, w) ==
  /\ RGe(StoredSize(self, data), _min(self, data, w))
  /\ IsSome(_max(self, data, w)) => RLe(StoredSize(self, data), Unwrap(_max(self, data, w)))

\* every carton is configured with resolved minimum <= resolved maximum
LimitsConsistent(self, w, datas) ==
  \A i \in 1..Len(datas) :
    IsSome(_max(self, datas[i], w))
    => RLe(_min(self, datas[i], w), Unwrap(_max(self, datas[i], w)))

(***************************************************************************)
(* C3: after any sequence of reconcile, resize and switch_zero handlers,   *)
(* with every carton's resolved minimum at most its resolved maximum,      *)
(* every sized carton's size lies between its minimum and its maximum      *)
(* resolved against the current container extent.                          *)
(***************************************************************************)
C3_SizesWithinLimits ==
  (style # None /\ LimitsConsistent(complex, wrap_size, scn.datas))
  => \A i \in 1..Len(scn.datas) :
       Sized(complex, scn.datas[i]) => WithinLimits(complex, scn.datas[i], wrap_size)

(***************************************************************************)
(* C4: a handler that returns an error (Ignore or Msg) -- reconcile, an    *)
(* independent or dependent resize, switch_zero -- leaves the metric, the  *)
(* zeroed_cache and every resizer's session cache as they were.            *)
(***************************************************************************)
C4_ErrorLeavesStateUnchanged ==
  [][(last'.res \in {"Ignore", "Msg"})
     => /\ complex'.metric = complex.metric
        /\ complex'.zeroed_cache = complex.zeroed_cache
        /\ cache' = cache]_vars

\* a dependent switch_zero(data, false) on a sized, collapsible carton that
\* was rejected because the freed size cannot be absorbed
C4_Witness ==
  /\ ~complex.independent
  /\ last.op = "switch_zero" /\ last.path = "off" /\ last.res = "Ignore"
  /\ Sized(complex, Unwrap(last.data))
  /\ get(complex.allow_zero, Unwrap(last.data))

(***************************************************************************)
(* C5: reconcile is idempotent: once a reconcile has been stored, another  *)
(* reconcile with the same container extent and the same cartons returns   *)
(* the metric that is stored (same zeroed cartons, same rel and abs of     *)
(* every carton, same default total), in either layout mode.               *)
(***************************************************************************)
C5_ReconcileIdempotent ==
  Reconciled
  => wrap_effect_on_update(complex, wrap_size, scn.datas).metric = complex.metric

(***************************************************************************)
(* C6: in independent mode, once a successful independent resize has been  *)
(* stored, a reconcile with the container extent unchanged leaves every    *)
(* carton that is within its limits at the size the resize gave it,        *)
(* whether or not the cartons sum to the container extent.                 *)
(***************************************************************************)
C6_ReconcileKeepsResizedSizes ==
  (complex.independent /\ last.op = "resize_work" /\ last.res = "Ok")
  => LET again == [complex EXCEPT
                     !.metric = wrap_effect_on_update(complex, wrap_size, scn.datas).metric]
     IN  \A i \in 1..Len(scn.datas) :
           (Sized(complex, scn.datas[i]) /\ WithinLimits(complex, scn.datas[i], wrap_size))
           => /\ Sized(again, scn.datas[i])
              /\ StoredSize(again, scn.datas[i]) = StoredSize(complex, scn.datas[i])

(***************************************************************************)
(* C7: a carton whose allow_zero is false never goes from sized to zeroed: *)
(* no resize, switch_zero or reconcile step turns Some(size) into None.    *)
(***************************************************************************)
C7_NotAllowedNeverZeroed ==
  [][\A d \in Ids(scn.datas) :
       (~get(complex.allow_zero, d) /\ Sized(complex, d)) => Sized(complex', d)]_vars

\* switch_zero(data, false) was called on a sized carton not allowed to be
\* zeroed, and the carton is still sized
C7_Witness ==
  /\ last.op = "switch_zero" /\ last.path = "off" /\ last.res = "Ignore"
  /\ Unwrap(last.data) \in Ids(scn.datas)
  /\ ~get(complex.allow_zero, Unwrap(last.data))
  /\ Sized(complex, Unwrap(last.data))

\* the last handler was resize_work of resizer d, and it called
\* independent_resizing with the given delta
Dragged(l, d, delta) ==
  /\ l.op = "resize_work" /\ l.path = "independent"
  /\ l.data = Some(d) /\ l.delta = Some(R(delta))

\* independent mode, carton d collapsible with threshold 10 and minimum 30
HysteresisExample(d) ==
  /\ complex.independent
  /\ _min(complex, d, wrap_size) = R(30)
  /\ _zeroed_when(complex, d, R(30)) = Some(R(10))
  /\ _zeroed_when(complex, d, Zero) = Some(R(10))

\* carton d is sized and measures its minimum
AtMinimum(d) ==
  Sized(complex, d) /\ style[d].size = _min(complex, d, wrap_size)

(***************************************************************************)
(* C8: the hysteresis boundary in independent mode, for a collapsible      *)
(* carton with threshold {abs: 10} and minimum {abs: 30}.  Sitting at its  *)
(* minimum, a delta of -9 returns Ignore and leaves it sized and a delta   *)
(* of -11 zeroes it; zeroed, a delta of 9 does not restore it and a delta  *)
(* of 11 restores it to exactly 30.                                        *)
(***************************************************************************)
C8_HysteresisBoundary ==
  [][\A d \in Ids(scn.datas) :
       (style # None /\ HysteresisExample(d))
       => /\ (AtMinimum(d) /\ Dragged(last', d, -9))
             => (last'.res = "Ignore" /\ complex' = complex)
          /\ (AtMinimum(d) /\ Dragged(last', d, -11))
             => (last'.res = "Ok" /\ ~Sized(complex', d))
          /\ (~Sized(complex, d) /\ Dragged(last', d, 9))
             => (last'.res = "Ignore" /\ complex' = complex)
          /\ (~Sized(complex, d) /\ Dragged(last', d, 11))
             => (last'.res = "Ok" /\ Sized(complex', d)
                 /\ StoredSize(complex', d) = R(30))]_vars

\* a zeroed carton of the example restored to exactly 30 by a delta of 11
C8_Witness ==
  \E d \in Ids(scn.datas) :
    /\ style # None /\ HysteresisExample(d)
    /\ Dragged(last, d, 11) /\ last.res = "Ok"
    /\ Sized(complex, d) /\ StoredSize(complex, d) = R(30)
    /\ ~Sized(scn.complex0, d)

\* this step is resize_work of resizer d calling independent_resizing with a
\* shrinking delta on the sized, collapsible carton d
IndependentShrink(d) ==
  /\ style # None /\ complex.independent
  /\ Sized(complex, d) /\ get(complex.allow_zero, d)
  /\ last'.op = "resize_work" /\ last'.path = "independent" /\ last'.data = Some(d)
  /\ RLt(Unwrap(last'.delta), Zero)

\* the raw target size + delta of that step
RawTarget(d) ==
  RAdd(style[d].size, Unwrap(last'.delta))

\* the collapse-enter threshold, computed against the current size
EnterThreshold(d) ==
  Unwrap(_zeroed_when(complex, d, style[d].size))

(***************************************************************************)
(* C9: a sized collapsible carton is zeroed by a shrinking drag only when  *)
(* the raw target lies at least the threshold below the minimum:           *)
(* resolved_min - (size + delta) >= threshold.                             *)
(***************************************************************************)
C9_ZeroedOnlyThresholdBelowMinimum ==
  [][\A d \in Ids(scn.datas) :
       (IndependentShrink(d) /\ ~Sized(complex', d))
       => RGe(RSub(_min(complex, d, wrap_size), RawTarget(d)), EnterThreshold(d))]_vars

(***************************************************************************)
(* C10: an independent shrink of a sized collapsible carton whose raw      *)
(* target is below its minimum zeroes the carton exactly when |delta|      *)
(* meets or exceeds the threshold computed against the current size, and   *)
(* is a no-op otherwise.                                                   *)
(* As stated this does not hold (C10_ZeroedWhenThresholdMet): the          *)
(* comparison is strict, |delta| equal to the threshold is a no-op.  What  *)
(* holds (C10_ZeroedWhenThresholdExceeded): the carton is zeroed exactly   *)
(* when |delta| is greater than the threshold.                             *)
(***************************************************************************)
C10_ZeroedWhenThresholdMet ==
  [][\A d \in Ids(scn.datas) :
       (IndependentShrink(d) /\ RLt(RawTarget(d), _min(complex, d, wrap_size)))
       => IF RGe(RAbs(Unwrap(last'.delta)), EnterThreshold(d))
          THEN last'.res = "Ok" /\ ~Sized(complex', d)
          ELSE last'.res = "Ignore" /\ complex' = complex /\ style' = style]_vars

C10_ZeroedWhenThresholdExceeded ==
  [][\A d \in Ids(scn.datas) :
       (IndependentShrink(d) /\ RLt(RawTarget(d), _min(complex, d, wrap_size)))
       => IF RGt(RAbs(Unwrap(last'.delta)), EnterThreshold(d))
          THEN last'.res = "Ok" /\ ~Sized(complex', d)
          ELSE last'.res = "Ignore" /\ complex' = complex /\ style' = style]_vars

\* an independent shrink by exactly the threshold, from the minimum, that
\* was ignored
C10_Witness ==
  \E d \in Ids(scn.datas) :
    /\ style # None /\ complex.independent
    /\ Sized(complex, d) /\ get(complex.allow_zero, d)
    /\ last.op = "resize_work" /\ last.path = "independent" /\ last.data = Some(d)
    /\ RLt(Unwrap(last.delta), Zero)
    /\ RAbs(Unwrap(last.delta)) = Unwrap(_zeroed_when(complex, d, style[d].size))
    /\ RLt(RAdd(style[d].size, Unwrap(last.delta)), _min(complex, d, wrap_size))
    /\ last.res = "Ignore"

\* the sizes written to the style of cartons 0, 1 and 2 are a, b and c
Sizes3(st, a, b, c) ==
  /\ st # None
  /\ st[0].size = R(a) /\ st[1].size = R(b) /\ st[2].size = R(c)

\* dependent mode, a wrap of 300, every carton sized with minimum 50
CacheExample ==
  /\ ~complex.independent /\ wrap_size = R(300)
  /\ \A d \in Ids(scn.datas) : Sized(complex, d) /\ _min(complex, d, wrap_size) = R(50)

\* the step is resize_work of resizer d with the given delta
DragStep(d, delta) ==
  /\ last'.op = "resize_work" /\ last'.data = Some(d) /\ last'.delta = Some(R(delta))

(***************************************************************************)
(* C11: the cache-priority scenario in dependent mode.  Cartons 0, 1, 2 of *)
(* size 100 each in a wrap of 300, minimum 50 each.  Dragging resizer 0    *)
(* (the boundary between 0 and 1) by -40 gives 60, 140, 100; dragging it   *)
(* by +40 later in the same gesture (the session cache holds carton 0's    *)
(* former size 100) gives 100, 100, 100.  Carton 2 keeps its size in both  *)
(* steps.                                                                  *)
(***************************************************************************)
C11_CachePriorityScenario ==
  [][/\ (CacheExample /\ Sizes3(style, 100, 100, 100) /\ DragStep(0, -40))
        => (last'.res = "Ok" /\ Sizes3(style', 60, 140, 100)
            /\ StoredSizes(complex', scn.datas)
                = <<<<0, Some(R(60))>>, <<1, Some(R(140))>>, <<2, Some(R(100))>>>>)
     /\ (CacheExample /\ Sizes3(style, 60, 140, 100) /\ DragStep(0, 40)
           /\ cache[0] = <<<<1, R(100)>>>>)
        => (last'.res = "Ok" /\ Sizes3(style', 100, 100, 100)
            /\ StoredSizes(complex', scn.datas)
                = <<<<0, Some(R(100))>>, <<1, Some(R(100))>>, <<2, Some(R(100))>>>>)]_vars

\* the gesture of the scenario has run: resizer 0 was dragged by -40 and then,
\* with carton 0's former size in its session cache, by +40 back to 100 each
C11_Witness ==
  /\ CacheExample /\ Sizes3(style, 100, 100, 100)
  /\ last.op = "resize_work" /\ last.data = Some(0) /\ last.delta = Some(R(40))
  /\ last.res = "Ok"
  /\ cache[0] = <<<<1, R(100)>>, <<2, R(140)>>>>

\* this step is a successful ordinary cascade (step 3 of dependent_resizing) of
\* resizer r, started from a layout that fills the wrap
CascadeStep(r) ==
  /\ style # None /\ ~complex.independent
  /\ last'.op = "resize_work" /\ last'.data = Some(r)
  /\ last'.res = "Ok" /\ last'.path = "cascade"
  /\ MeasuredTotal = wrap_size /\ wrap_size' = wrap_size

\* the indices of the expand set of a resize of the carton at index with delta
ExpandSet(index, delta) ==
  IF RLt(delta, Zero) THEN (index + 1)..Len(scn.datas) ELSE 1..index

\* j is closer than j2 to the boundary, both in the expand set
Closer(j, j2, delta) ==
  IF RLt(delta, Zero) THEN j < j2 ELSE j > j2

\* the size of the carton at index i as measured before the step and as stored
\* after it (Options)
Before(i) ==
  MeasuredSizes(complex, style, scn.datas)[i][2]

After(i) ==
  StoredSizes(complex', scn.datas)[i][2]

Grew(i) ==
  IsSome(Before(i)) /\ IsSome(After(i)) /\ RGt(Unwrap(After(i)), Unwrap(Before(i)))

\* the carton at index i can take nothing more from the cache pass: it is back
\* at its former size or at its max
CacheServed(i, former) ==
  \/ RGe(Unwrap(After(i)), former)
  \/ /\ IsSome(_max(complex, scn.datas[i], wrap_size))
     /\ RGe(Unwrap(After(i)), Unwrap(_max(complex, scn.datas[i], wrap_size)))

\* the carton at index j grew by more than the cache pass can give it
FrontGrown(j, c) ==
  /\ Grew(j)
  /\ \A k \in 1..Len(c) : c[k][1] = j => RGt(Unwrap(After(j)), c[k][2])

(***************************************************************************)
(* C12: in the ordinary cascade of a dependent resize the expansion        *)
(* capacity goes first to the expand cartons recorded in the session       *)
(* cache, newest entry first, each growing at most to its recorded former  *)
(* size; only what is left goes to the expand cartons closest to the       *)
(* boundary first, each up to its max.  So on every cascade step: an older *)
(* cache entry grows only if every newer cached expand carton is served    *)
(* (back at its former size or at its max); a carton grows beyond what the *)
(* cache gives it only if every cached expand carton is served and every   *)
(* sized expand carton closer to the boundary is at its max; and no carton *)
(* that grew exceeds its max.                                              *)
(***************************************************************************)
C12_CacheFirstThenFront ==
  [][\A r \in Ids(scn.datas) :
       CascadeStep(r)
       => LET delta == Unwrap(last'.delta)
              E == ExpandSet(IndexOf(scn.datas, r), delta)
              c == cache[r]
              cached == {k \in 1..Len(c) : c[k][1] \in E /\ IsSome(Before(c[k][1]))}
          IN  /\ \A k \in cached, k2 \in cached :
                   (k < k2 /\ Grew(c[k][1])) => CacheServed(c[k2][1], c[k2][2])
              /\ \A j \in E :
                   FrontGrown(j, c)
                   => /\ \A k \in cached : CacheServed(c[k][1], c[k][2])
                      /\ \A j2 \in E :
                           (IsSome(Before(j2)) /\ Closer(j2, j, delta))
                           => /\ IsSome(_max(complex, scn.datas[j2], wrap_size))
                              /\ RGe(Unwrap(After(j2)),
                                     Unwrap(_max(complex, scn.datas[j2], wrap_size)))
              /\ \A j \in E :
                   (Grew(j) /\ IsSome(_max(complex, scn.datas[j], wrap_size)))
                   => RLe(Unwrap(After(j)), Unwrap(_max(complex, scn.datas[j], wrap_size)))]_vars

\* a cascade whose expand set holds two cached cartons: the capacity 20 went to
\* the newest entry (carton 0, back at 100) and then to the older one
\* (carton 1, from 50 to 60)
C12_Witness ==
  /\ scn.name = "DepCache" /\ ~complex.independent
  /\ last.op = "resize_work" /\ last.res = "Ok" /\ last.path = "cascade"
  /\ last.data = Some(1) /\ last.delta = Some(R(20))
  /\ Len(cache[1]) >= 2 /\ cache[1][1] = <<2, R(100)>> /\ cache[1][2] = <<1, R(100)>>
  /\ Sizes3(style, 100, 60, 140)

\* seq a is a prefix of seq b
IsPrefix(a, b) ==
  Len(a) <= Len(b) /\ SubSeq(b, 1, Len(a)) = a

(***************************************************************************)
(* C13: with gestures of the form pointer-down, pointer-moves, pointer-up, *)
(* every pointer-up leaves every resizer's session cache empty, so a       *)
(* gesture starts with an empty cache at its pointer-down and a resize     *)
(* sees only the entries recorded since; and a session cache changes       *)
(* otherwise only by a dependent-mode resize of the resizer being dragged  *)
(* appending entries, never in independent mode.                           *)
(***************************************************************************)
C13_SessionCacheOfOneGesture ==
  [][/\ last'.op = "pointer_up" => \A r \in Ids(scn.datas) : cache'[r] = <<>>
     /\ last'.op = "pointer_down" => cache'[Unwrap(last'.data)] = <<>>
     /\ \A r \in Ids(scn.datas) :
          cache'[r] # cache[r]
          => \/ last'.op = "pointer_up"
             \/ /\ last'.op = "resize_work" /\ last'.data = Some(r)
                /\ ~complex.independent
                /\ r \in Ids(doc)
                /\ IsPrefix(cache[r], cache'[r])]_vars

\* a pointer-up that ended a gesture whose dependent resize shrank a carton
\* (and so recorded it in the session cache): every session cache is empty
C13_Witness ==
  /\ last.op = "pointer_up" /\ ~complex.independent
  /\ \A d \in Ids(scn.datas) : Sized(complex, d)
  /\ complex.zeroed_cache.map # <<>>
  /\ \A r \in Ids(scn.datas) : cache[r] = <<>>

\* this step is resize_work of resizer r calling independent_resizing
IndependentStep(r) ==
  /\ style # None /\ complex.independent
  /\ last'.op = "resize_work" /\ last'.path = "independent" /\ last'.data = Some(r)

(***************************************************************************)
(* C14: independent resize never cascades.  A call on carton r that        *)
(* returns Ok leaves the size and the zeroed state of every other carton   *)
(* as measured on entry, and their styled size as it was; a call that      *)
(* returns Ignore changes nothing.  In particular a carton that is not     *)
(* collapsible, at its minimum 50, given a delta of -20, stays at exactly  *)
(* 50 and the call returns Ignore.                                         *)
(***************************************************************************)
C14_IndependentNeverCascades ==
  [][\A r \in Ids(scn.datas) :
       IndependentStep(r)
       => /\ IF last'.res = "Ok"
             THEN \A i \in 1..Len(scn.datas) :
                    scn.datas[i] # r
                    => /\ After(i) = Before(i)
                       /\ style'[scn.datas[i]].size = style[scn.datas[i]].size
             ELSE last'.res = "Ignore" /\ complex' = complex /\ style' = style
          /\ (/\ ~get(complex.allow_zero, r) /\ Sized(complex, r)
              /\ _min(complex, r, wrap_size) = R(50) /\ style[r].size = R(50)
              /\ last'.delta = Some(R(-20)))
             => /\ last'.res = "Ignore"
                /\ Sized(complex', r) /\ StoredSize(complex', r) = R(50)
                /\ style'[r].size = R(50)]_vars

\* the carton that is not collapsible, at its minimum 50, was given -20: the
\* call returned Ignore and the carton is at 50
C14_Witness ==
  \E r \in Ids(scn.datas) :
    /\ style # None /\ complex.independent
    /\ last.op = "resize_work" /\ last.path = "independent" /\ last.data = Some(r)
    /\ last.delta = Some(R(-20)) /\ last.res = "Ignore"
    /\ ~get(complex.allow_zero, r) /\ _min(complex, r, wrap_size) = R(50)
    /\ Sized(complex, r) /\ StoredSize(complex, r) = R(50) /\ style[r].size = R(50)

\* this step is a reconcile of a dependent complex that returns Ok: it hands
\* the candidate sizes to adjust_to_fill_blank
FillStep ==
  ~complex.independent /\ last'.op = "wrap_effect_on_update" /\ last'.res = "Ok"

\* the data_sizes a reconcile at extent w hands to adjust_to_fill_blank, and
\* what adjust_to_fill_blank makes of them
FillEntry(w) ==
  Candidates(complex, w, scn.datas)

FillResult(w) ==
  adjust_to_fill_blank(complex, w, FillEntry(w))

\* the sizes of data_sizes, None left out
SizesOf(data_sizes) ==
  [i \in 1..Len(data_sizes) |->
     IF IsSome(data_sizes[i][2]) THEN Unwrap(data_sizes[i][2]) ELSE None]

\* two sized cartons of 40 with the maximum 60 in a container of w
FillExample(w) ==
  /\ SizesOf(FillEntry(w)) = <<R(40), R(40)>>
  /\ \A d \in Ids(scn.datas) : _max(complex, d, w) = Some(R(60))

(***************************************************************************)
(* C15: the fill step of a dependent reconcile never lowers a carton and   *)
(* never raises one above its max: every sized carton ends at least where  *)
(* it entered, one that was raised ends at most at its max, a zeroed one   *)
(* stays zeroed, and the sizes stored are the sizes the fill returned.     *)
(* Two cartons of 40 with the maximum 60 in a container of 150 end as      *)
(* 60 and 60, the total returned 120.                                      *)
(***************************************************************************)
C15_FillWithinMax ==
  [][FillStep
     => \A e \in {FillEntry(wrap_size')}, r \in {FillResult(wrap_size')} :
            /\ \A i \in 1..Len(scn.datas) :
                 /\ After(i) = r.sizes[i][2]
                 /\ IsSome(r.sizes[i][2]) = IsSome(e[i][2])
                 /\ IsSome(e[i][2])
                    => /\ RGe(Unwrap(r.sizes[i][2]), Unwrap(e[i][2]))
                       /\ RGt(Unwrap(r.sizes[i][2]), Unwrap(e[i][2]))
                          => LET max == _max(complex, scn.datas[i], wrap_size')
                             IN  IsNone(max) \/ RLe(Unwrap(r.sizes[i][2]), Unwrap(max))
            /\ (FillExample(wrap_size') /\ wrap_size' = R(150))
               => /\ SizesOf(r.sizes) = <<R(60), R(60)>>
                  /\ r.total = R(120)
                  /\ SizesOf(StoredSizes(complex', scn.datas)) = <<R(60), R(60)>>]_vars

\* the reconcile of the two cartons of 40 in the container of 150 has run
C15_Witness ==
  /\ Reconciled /\ ~complex.independent /\ wrap_size = R(150)
  /\ Len(scn.datas) = 2
  /\ \A d \in Ids(scn.datas) : _max(complex, d, wrap_size) = Some(R(60))
  /\ SizesOf(StoredSizes(complex, scn.datas)) = <<R(60), R(60)>>
  /\ SizesOf(StoredSizes(scn.complex0, scn.datas)) = <<R(40), R(40)>>

\* what the sized cartons of data_sizes can still take up to their max
RECURSIVE SumHeadroom(_, _, _)
SumHeadroom(data_sizes, w, i) ==
  IF i > Len(data_sizes) THEN Zero
  ELSE RAdd(IF IsSome(data_sizes[i][2]) /\ IsSome(_max(complex, data_sizes[i][1], w))
            THEN RMax(RSub(Unwrap(_max(complex, data_sizes[i][1], w)),
                           Unwrap(data_sizes[i][2])), Zero)
            ELSE Zero,
            SumHeadroom(data_sizes, w, i + 1))

\* the combined headroom of the sized cartons is at least b
HeadroomAtLeast(data_sizes, w, b) ==
  \/ \E i \in 1..Len(data_sizes) :
       IsSome(data_sizes[i][2]) /\ IsNone(_max(complex, data_sizes[i][1], w))
  \/ RGe(SumHeadroom(data_sizes, w, 1), b)

\* every sized carton of the result is exactly at its max
AllAtMax(sizes, w) ==
  \A i \in 1..Len(sizes) :
    IsSome(sizes[i][2]) => Some(Unwrap(sizes[i][2])) = _max(complex, sizes[i][1], w)

\* every sized carton that entered below its max is exactly at it, and any
\* other is as it entered
Saturated(entry, sizes, w) ==
  \A i \in 1..Len(sizes) :
    IsSome(sizes[i][2])
    => IF IsSome(_max(complex, sizes[i][1], w))
          /\ RLt(Unwrap(entry[i][2]), Unwrap(_max(complex, sizes[i][1], w)))
       THEN Some(Unwrap(sizes[i][2])) = _max(complex, sizes[i][1], w)
       ELSE sizes[i][2] = entry[i][2]

(***************************************************************************)
(* C16: the fill step, called with a positive blank, returns the sum of    *)
(* the resulting sizes; that sum is the container extent whenever the      *)
(* combined headroom of the sized cartons is at least the blank, and       *)
(* otherwise every sized carton ends exactly at its max.                   *)
(* As stated, with the blank the extent minus the sum of the candidates,   *)
(* this does not hold (C16_FillSumIsExtent): the blank handed out is the   *)
(* floor of that difference.  What holds (C16_FillSumIsExtentLessFraction):*)
(* with b the floored blank and b > 0, the value returned is the sum of    *)
(* the resulting sizes; when the headroom is at least b it is the          *)
(* candidates' sum plus b -- at most the extent, more than extent - 1, and *)
(* the extent when the difference is whole; otherwise every sized carton   *)
(* that entered below its max ends exactly at it and any other is left as  *)
(* it entered.                                                             *)
(***************************************************************************)
C16_FillSumIsExtent ==
  [][FillStep
     => \A w \in {wrap_size'}, e \in {FillEntry(wrap_size')},
           r \in {FillResult(wrap_size')},
           blank \in {RSub(wrap_size', get_total_size(FillEntry(wrap_size')))} :
            RGt(blank, Zero)
            => /\ r.total = get_total_size(r.sizes)
               /\ IF HeadroomAtLeast(e, w, blank)
                  THEN r.total = w
                  ELSE AllAtMax(r.sizes, w)]_vars

C16_FillSumIsExtentLessFraction ==
  [][FillStep
     => \A w \in {wrap_size'}, e \in {FillEntry(wrap_size')},
           r \in {FillResult(wrap_size')},
           b \in {FillBlank(wrap_size', FillEntry(wrap_size'))} :
            RGt(b, Zero)
            => /\ r.total = get_total_size(r.sizes)
               /\ StoredTotal(complex', scn.datas) = r.total
               /\ IF HeadroomAtLeast(e, w, b)
                  THEN /\ r.total = RAdd(get_total_size(e), b)
                       /\ RLe(r.total, w) /\ RGt(r.total, RSub(w, R(1)))
                       /\ RFloor(get_total_size(e)) = get_total_size(e) => r.total = w
                  ELSE Saturated(e, r.sizes, w)]_vars

\* a first reconcile whose candidates left a positive blank within the
\* headroom: the sizes stored sum to the extent
C16_Witness ==
  /\ Reconciled /\ ~complex.independent /\ steps = 1
  /\ RGt(FillBlank(wrap_size, Candidates(scn.complex0, wrap_size, scn.datas)), Zero)
  /\ StoredTotal(complex, scn.datas) = wrap_size
  /\ \E d \in Ids(scn.datas) :
       /\ Sized(complex, d) /\ IsSome(_max(complex, d, wrap_size))
       /\ RLt(StoredSize(complex, d), Unwrap(_max(complex, d, wrap_size)))

\* adjust_to_fill_blank on entry at extent w: the candidates, the floored
\* blank and the total
FillStart(w) ==
  [sizes |-> FillEntry(w),
   blank |-> FillBlank(w, FillEntry(w)),
   total |-> get_total_size(FillEntry(w))]

\* the state adjust_to_fill_blank is in after its proportional pass
ProportionalPass(w) ==
  FillProportional(complex, w, FillStart(w), 1)

\* a share of the blank b for a candidate of this size: size / extent * blank
Share(size, w, b) ==
  RMul(RDiv(size, w), b)

(***************************************************************************)
(* C17: the proportional pass of the fill hands out the blank in           *)
(* proportion to the candidate sizes: the increment of every sized carton  *)
(* in that pass is size / extent * blank, blank being the amount computed  *)
(* on entry, clamped by the carton's max; so two cartons with equal        *)
(* candidate sizes, no max binding, receive equal increments.              *)
(***************************************************************************)
C17_ProportionalShare ==
  [][FillStep
     => \A w \in {wrap_size'}, e \in {FillEntry(wrap_size')},
           b \in {FillBlank(wrap_size', FillEntry(wrap_size'))} :
          RGt(b, Zero)
          => \A p \in {ProportionalPass(w).sizes} :
               /\ \A i \in 1..Len(e) :
                    IsSome(e[i][2])
                    => RSub(Unwrap(p[i][2]), Unwrap(e[i][2]))
                       = RMax(RSub(max_limited(complex, e[i][1],
                                               RAdd(Unwrap(e[i][2]),
                                                    Share(Unwrap(e[i][2]), w, b)), w),
                                   Unwrap(e[i][2])), Zero)
               /\ \A i, j \in 1..Len(e) :
                    (/\ IsSome(e[i][2]) /\ IsSome(e[j][2]) /\ e[i][2] = e[j][2]
                     /\ \A k \in {i, j} :
                          max_limited(complex, e[k][1],
                                      RAdd(Unwrap(e[k][2]), Share(Unwrap(e[k][2]), w, b)), w)
                          = RAdd(Unwrap(e[k][2]), Share(Unwrap(e[k][2]), w, b)))
                    => RSub(Unwrap(p[i][2]), Unwrap(e[i][2]))
                       = RSub(Unwrap(p[j][2]), Unwrap(e[j][2]))]_vars

(***************************************************************************)
(* C18: two cartons of 40 with the maximum 60 in a container of 150: the   *)
(* proportional pass alone brings both cartons to their max 60, and the    *)
(* rear pass changes no carton.                                            *)
(* As stated this does not hold (C18_ProportionalAloneSaturates): a share  *)
(* 40 / 150 * blank of a blank of at most 70 is less than the 20 a carton  *)
(* can take.  What holds (C18_RearPassSaturates): the proportional pass    *)
(* raises both cartons and leaves both below 60 with blank to spare, the   *)
(* rear pass raises both to exactly 60, and the fill returns 120.          *)
(***************************************************************************)
C18_ProportionalAloneSaturates ==
  [][(FillStep /\ wrap_size' = R(150) /\ FillExample(wrap_size'))
     => \A p \in {ProportionalPass(wrap_size')}, r \in {FillResult(wrap_size')} :
          /\ SizesOf(p.sizes) = <<R(60), R(60)>>
          /\ r.sizes = p.sizes]_vars

C18_RearPassSaturates ==
  [][(FillStep /\ wrap_size' = R(150) /\ FillExample(wrap_size'))
     => \A p \in {ProportionalPass(wrap_size')}, r \in {FillResult(wrap_size')} :
          /\ \A i \in 1..2 :
               /\ RGt(Unwrap(p.sizes[i][2]), R(40))
               /\ RLt(Unwrap(p.sizes[i][2]), R(60))
          /\ RGt(p.blank, Zero)
          /\ SizesOf(r.sizes) = <<R(60), R(60)>>
          /\ r.total = R(120)
          /\ r = adjust_to_fill_blank(complex, wrap_size', FillEntry(wrap_size'))
          /\ r.sizes = FillFromRear(complex, wrap_size', p, 2).sizes
          /\ SizesOf(StoredSizes(complex', scn.datas)) = <<R(60), R(60)>>]_vars

\* the first reconcile of the two cartons of 40 in the container of 150 has
\* run: the proportional pass had left blank to hand out, both are at 60
C18_Witness ==
  /\ Reconciled /\ ~complex.independent /\ steps = 1 /\ wrap_size = R(150)
  /\ SizesOf(Candidates(scn.complex0, wrap_size, scn.datas)) = <<R(40), R(40)>>
  /\ \A d \in Ids(scn.datas) : _max(scn.complex0, d, wrap_size) = Some(R(60))
  /\ \A c \in {Candidates(scn.complex0, wrap_size, scn.datas)} :
       RGt(FillProportional(scn.complex0, wrap_size,
                            [sizes |-> c, blank |-> FillBlank(wrap_size, c),
                             total |-> get_total_size(c)], 1).blank, Zero)
  /\ SizesOf(StoredSizes(complex, scn.datas)) = <<R(60), R(60)>>

\* this step is resize_work of resizer r taking step 1 of dependent_resizing
\* (max_shrink_cap is 0)
ZeroShrinkStep(r) ==
  /\ style # None /\ ~complex.independent
  /\ last'.op = "resize_work" /\ last'.data = Some(r) /\ last'.path = "zero_shrink"

\* the indices of the shrink set, and the one closest to the boundary (0 when
\* the shrink set is empty)
ShrinkSet(index, delta) ==
  (1..Len(scn.datas)) \ ExpandSet(index, delta)

NearestShrink(index, delta) ==
  IF RLt(delta, Zero) THEN index
  ELSE IF index < Len(scn.datas) THEN index + 1 ELSE 0

\* what the sized cartons of the set E took in the step, from index i on
RECURSIVE Growth(_, _)
Growth(E, i) ==
  IF i > Len(scn.datas) THEN Zero
  ELSE RAdd(IF i \in E /\ IsSome(Before(i)) /\ IsSome(After(i))
            THEN RSub(Unwrap(After(i)), Unwrap(Before(i))) ELSE Zero,
            Growth(E, i + 1))

\* what the sized cartons of the set E can take up to their max, from index i
\* on; Absorbable: it is at least `size`
RECURSIVE Room(_, _)
Room(E, i) ==
  IF i > Len(scn.datas) THEN Zero
  ELSE RAdd(IF i \in E /\ IsSome(Before(i))
               /\ IsSome(_max(complex, scn.datas[i], wrap_size))
            THEN RMax(RSub(Unwrap(_max(complex, scn.datas[i], wrap_size)),
                           Unwrap(Before(i))), Zero)
            ELSE Zero,
            Room(E, i + 1))

Absorbable(E, size) ==
  \/ \E i \in E : IsSome(Before(i)) /\ IsNone(_max(complex, scn.datas[i], wrap_size))
  \/ (\E i \in E : IsSome(Before(i))) /\ RGe(Room(E, 1), size)

(***************************************************************************)
(* C19: a dependent resize with no shrink capacity (every carton of the    *)
(* shrink set zeroed or at or below its minimum).  Either the call returns *)
(* Ok: the shrink carton closest to the boundary was sized and is zeroed,  *)
(* the sized expand cartons had room for its whole size within their max,  *)
(* they grew by exactly that size in total, none shrank, none that grew    *)
(* exceeds its max, no zeroed carton was restored and the other shrink     *)
(* cartons are unchanged.  Or the call returns Ignore and neither the      *)
(* metric nor any style changes.                                           *)
(***************************************************************************)
C19_ZeroShrinkAllOrNothing ==
  [][\A r \in Ids(scn.datas) :
       ZeroShrinkStep(r)
       => \A index \in {IndexOf(scn.datas, r)}, delta \in {Unwrap(last'.delta)} :
          \A E \in {ExpandSet(index, delta)}, S \in {ShrinkSet(index, delta)},
             n \in {NearestShrink(index, delta)} :
            /\ \A j \in S :
                 \/ IsNone(Before(j))
                 \/ RLe(Unwrap(Before(j)), _min(complex, scn.datas[j], wrap_size))
            /\ IF last'.res = "Ok"
               THEN /\ n \in S /\ IsSome(Before(n)) /\ IsNone(After(n))
                    /\ Absorbable(E, Unwrap(Before(n)))
                    /\ Growth(E, 1) = Unwrap(Before(n))
                    /\ \A j \in E :
                         /\ IsSome(After(j)) = IsSome(Before(j))
                         /\ IsSome(Before(j)) => RGe(Unwrap(After(j)), Unwrap(Before(j)))
                         /\ (Grew(j) /\ IsSome(_max(complex, scn.datas[j], wrap_size)))
                            => RLe(Unwrap(After(j)),
                                   Unwrap(_max(complex, scn.datas[j], wrap_size)))
                    /\ \A j \in S \ {n} : After(j) = Before(j)
               ELSE last'.res = "Ignore" /\ complex' = complex /\ style' = style]_vars

\* a resize with no shrink capacity has zeroed the closest shrink carton (it
\* is in the session cache of the resizer and in the zeroed_cache), and the
\* closest expand carton, at its max, could not take the whole size
C19_Witness ==
  \E r \in Ids(scn.datas) :
    /\ style # None /\ ~complex.independent
    /\ last.op = "resize_work" /\ last.data = Some(r)
    /\ last.path = "zero_shrink" /\ last.res = "Ok"
    /\ \E k \in 1..Len(cache[r]) :
         /\ ~Sized(complex, scn.datas[cache[r][k][1]])
         /\ scn.datas[cache[r][k][1]] \in DOMAIN complex.zeroed_cache.map
         /\ RGt(cache[r][k][2], R(30))
    /\ Sized(complex, r) /\ _max(complex, r, wrap_size) = Some(StoredSize(complex, r))

\* this step is resize_work of resizer r in dependent mode, having reached
\* dependent_resizing with a delta other than 0
DependentStep(r) ==
  /\ style # None /\ ~complex.independent
  /\ last'.op = "resize_work" /\ last'.data = Some(r)
  /\ last'.path \in {"zero_shrink", "zero_restore", "cascade"}

\* the expand carton closest to the boundary (0 when the expand set is empty)
NearestExpand(index, delta) ==
  IF RLt(delta, Zero) THEN (IF index < Len(scn.datas) THEN index + 1 ELSE 0)
  ELSE index

\* j2 is closer than j to the boundary, both in the shrink set
CloserShrink(j2, j, delta) ==
  IF RLt(delta, Zero) THEN j2 > j ELSE j2 < j

\* max_shrink_cap of the cartons of the set S, from index i on
RECURSIVE ShrinkCap(_, _)
ShrinkCap(S, i) ==
  IF i > Len(scn.datas) THEN Zero
  ELSE RAdd(IF i \in S /\ IsSome(Before(i))
            THEN RMax(RSub(Unwrap(Before(i)), _min(complex, scn.datas[i], wrap_size)), Zero)
            ELSE Zero,
            ShrinkCap(S, i + 1))

\* the nearest expand carton n is zeroed and the shrink set has capacity
CollapsedNearest(n, S) ==
  /\ n # 0 /\ IsNone(Before(n))
  /\ RGt(ShrinkCap(S, 1), Zero)

\* |delta| meets the threshold of restoring n and the shrink set can fund n's min
RestoreFunded(n, S, delta) ==
  /\ IsSome(_zeroed_when(complex, scn.datas[n], Zero))
  /\ RGe(RAbs(delta), Unwrap(_zeroed_when(complex, scn.datas[n], Zero)))
  /\ RLe(_min(complex, scn.datas[n], wrap_size), ShrinkCap(S, 1))

\* the step restored n to its min and took exactly that min from the shrink
\* set, closest carton first, or it returned Ignore and changed nothing
RestoredOrIgnored(n, E, S, delta) ==
  IF last'.res = "Ok"
  THEN /\ RestoreFunded(n, S, delta)
       /\ After(n) = Some(_min(complex, scn.datas[n], wrap_size))
       /\ \A j \in E \ {n} : After(j) = Before(j)
       /\ Growth(S, 1) = RNeg(_min(complex, scn.datas[n], wrap_size))
       /\ \A j \in S :
            /\ IsSome(After(j)) = IsSome(Before(j))
            /\ IsSome(Before(j))
               => /\ RLe(Unwrap(After(j)), Unwrap(Before(j)))
                  /\ RLt(Unwrap(After(j)), Unwrap(Before(j)))
                     => /\ RGe(Unwrap(After(j)), _min(complex, scn.datas[j], wrap_size))
                        /\ \A j2 \in S :
                             (CloserShrink(j2, j, delta) /\ IsSome(Before(j2)))
                             => RLe(Unwrap(After(j2)),
                                    _min(complex, scn.datas[j2], wrap_size))
  ELSE /\ last'.res = "Ignore" /\ ~RestoreFunded(n, S, delta)
       /\ complex' = complex /\ style' = style

\* no expand carton was given a larger size while n stayed zeroed
NoneGrewPast(n, E) ==
  IsNone(After(n))
  => \A j \in E : RLe(style'[scn.datas[j]].size, style[scn.datas[j]].size)

SwitchOffStep(d) ==
  /\ style # None /\ ~complex.independent
  /\ last'.op = "switch_zero" /\ last'.path = "off" /\ last'.data = Some(d)
  /\ IndexOf(scn.datas, d) # 0
  /\ IsSome(Before(IndexOf(scn.datas, d)))
  /\ get(complex.allow_zero, d)
  /\ MeasuredTotal = wrap_size

\* the indices of the cartons other than the one at index i
Others(i) ==
  (1..Len(scn.datas)) \ {i}

(***************************************************************************)
(* C21: in dependent mode switch_zero(d, false) on a sized carton that may *)
(* be zeroed returns Ok only if the other sized cartons have room for its  *)
(* whole size within their max, and then the carton is zeroed and the      *)
(* other cartons together grew by exactly that size; otherwise it returns  *)
(* Ignore and neither the complex nor any style changes.                   *)
(***************************************************************************)
C21_SwitchOffAbsorbedByOthers ==
  [][\A d \in Ids(scn.datas) :
       SwitchOffStep(d)
       => \A i \in {IndexOf(scn.datas, d)} :
          \A O \in {Others(i)}, size \in {Unwrap(Before(i))} :
            IF last'.res = "Ok"
            THEN /\ Absorbable(O, size)
                 /\ IsNone(After(i))
                 /\ Growth(O, 1) = size
            ELSE /\ last'.res = "Ignore"
                 /\ complex' = complex /\ style' = style]_vars

\* this step is switch_zero(d, true) in dependent mode on a zeroed carton, in a
\* layout that fills the wrap
SwitchOnStep(d) ==
  /\ style # None /\ ~complex.independent
  /\ last'.op = "switch_zero" /\ last'.path = "on" /\ last'.data = Some(d)
  /\ IndexOf(scn.datas, d) # 0
  /\ IsNone(Before(IndexOf(scn.datas, d)))
  /\ MeasuredTotal = wrap_size

\* what the carton at index j lost in the step
Loss(j) ==
  RSub(Unwrap(Before(j)), Unwrap(After(j)))

\* the sized cartons of O kept their state and none was taken below its
\* minimum or given anything
NoneBelowMin(O) ==
  \A j \in O :
    /\ IsSome(After(j)) = IsSome(Before(j))
    /\ IsSome(Before(j))
       => /\ RLe(Unwrap(After(j)), Unwrap(Before(j)))
          /\ RGe(Unwrap(After(j)),
                 RMin(Unwrap(Before(j)), _min(complex, scn.datas[j], wrap_size)))

(***************************************************************************)
(* C22 as stated: in dependent mode switch_zero(d, true) on a zeroed       *)
(* carton takes the restored size from the other sized cartons in          *)
(* proportion to their sizes, none below its minimum, and returns Ignore   *)
(* with nothing changed whenever what the other cartons hold above their   *)
(* minimum is less than the cached size.                                   *)
(***************************************************************************)
C22_RestoreFundedProportionally ==
  [][\A d \in Ids(scn.datas) :
       SwitchOnStep(d)
       => \A i \in {IndexOf(scn.datas, d)} :
          \A O \in {Others(i)}, cached \in {_zeroed_cache(complex, d, wrap_size)} :
            /\ RLt(ShrinkCap(O, 1), cached)
               => last'.res = "Ignore" /\ complex' = complex /\ style' = style
            /\ last'.res = "Ok"
               => /\ NoneBelowMin(O)
                  /\ \A j \in O, k \in O :
                       (IsSome(Before(j)) /\ IsSome(Before(k)))
                       => RMul(Loss(j), Unwrap(Before(k)))
                            = RMul(Loss(k), Unwrap(Before(j)))]_vars

(***************************************************************************)
(* C22, as the code funds a restore: in dependent mode, in a layout that   *)
(* fills the wrap, switch_zero(d, true) on a zeroed carton restores it     *)
(* with the smaller of the cached size and what the other sized cartons    *)
(* hold above their minimum, when that is at least the carton's minimum:   *)
(* the other cartons lose exactly that amount, in the order of the         *)
(* cartons in the wrap (a carton loses something only if every sized       *)
(* carton before it ends at or below its minimum), none is taken below its *)
(* minimum, and the zeroed_cache entry of d is removed.  Otherwise the     *)
(* call returns Ignore and neither the complex nor any style changes.      *)
(***************************************************************************)
C22_RestoreFundedFrontFirst ==
  [][\A d \in Ids(scn.datas) :
       SwitchOnStep(d)
       => \A i \in {IndexOf(scn.datas, d)} :
          \A O \in {Others(i)},
             fund \in {RMin(_zeroed_cache(complex, d, wrap_size),
                            ShrinkCap(Others(i), 1))} :
            IF RGe(fund, _min(complex, d, wrap_size))
            THEN /\ last'.res = "Ok"
                 /\ After(i) = Some(fund)
                 /\ Growth(O, 1) = RNeg(fund)
                 /\ NoneBelowMin(O)
                 /\ \A j \in O, j2 \in O :
                      (j2 < j /\ IsSome(Before(j)) /\ IsSome(Before(j2))
                         /\ RGt(Loss(j), Zero))
                      => RLe(Unwrap(After(j2)), _min(complex, scn.datas[j2], wrap_size))
                 /\ d \notin DOMAIN complex'.zeroed_cache.map
            ELSE /\ last'.res = "Ignore"
                 /\ complex' = complex /\ style' = style]_vars

\* switch_zero(d, true) has restored carton d with less than its cached size:
\* the cartons before and after it are at their minimum
C22_Witness ==
  \E d \in Ids(scn.datas) :
    /\ style # None /\ ~complex.independent
    /\ last.op = "switch_zero" /\ last.path = "on" /\ last.res = "Ok"
    /\ last.data = Some(d)
    /\ Sized(complex, d)
    /\ RLt(StoredSize(complex, d), RMul(wrap_size, get(scn.complex0.zeroed_cache, d)))
    /\ \E a \in Ids(scn.datas), b \in Ids(scn.datas) :
         /\ IndexOf(scn.datas, a) < IndexOf(scn.datas, d)
         /\ IndexOf(scn.datas, d) < IndexOf(scn.datas, b)
         /\ Sized(complex, a) /\ StoredSize(complex, a) = _min(complex, a, wrap_size)
         /\ Sized(complex, b) /\ StoredSize(complex, b) = _min(complex, b, wrap_size)

\* switch_zero(d, false) followed at once by switch_zero(d, true), from the
\* current state: the outcome of the second call, given that the first
\* returned Ok
RestoreAfterCollapse(d) ==
  CHOOSE o \in {switch_zero(r1.complex, r1.style, wrap_size, scn.datas, d, TRUE) :
                  r1 \in {switch_zero(complex, style, wrap_size, scn.datas, d, FALSE)}} : TRUE

\* carton d is sized, may be zeroed, and switch_zero(d, false) returns Ok
Collapses(d) ==
  /\ style # None
  /\ ~_zeroed(complex, d) /\ get(complex.allow_zero, d)
  /\ switch_zero(complex, style, wrap_size, scn.datas, d, FALSE).res = "Ok"

(***************************************************************************)
(* C23: with the wrap's size unchanged, switch_zero(d, false) on a sized   *)
(* carton that may be zeroed, followed at once by switch_zero(d, true),    *)
(* returns Ok and gives the carton exactly the size it had before the      *)
(* first call, in independent and in dependent mode.                       *)
(***************************************************************************)
C23_CollapseThenRestore ==
  \A d \in Ids(scn.datas) :
    Collapses(d)
    => \A r2 \in {RestoreAfterCollapse(d)} :
         /\ r2.res = "Ok"
         /\ r2.style[d].size = style[d].size

\* the call recorded by the step names a data that no carton of the wrap carries
NamesAbsent ==
  /\ last'.op \in {"resize_work", "switch_zero"}
  /\ IsSome(last'.data)
  /\ Unwrap(last'.data) \notin Ids(scn.datas)

\* resize_work returned before update_resize measured the wrap: no gesture
\* (shift or pos is None), or the pointer did not move, or delta is 0 or
\* points against the move
BeforeMeasures ==
  last'.op = "resize_work" /\ last'.path \in {"shift", "pos", "moving"}

LastOf(list, k) ==
  list[CHOOSE i \in DOMAIN list :
         list[i][1] = k /\ \A j \in (i + 1)..Len(list) : list[j][1] # k][2]

Listed(list, k) ==
  \E i \in DOMAIN list : list[i][1] = k

C25_GetTotal ==
  /\ [](call.fn \in {"from_vec", "from_tuple"} =>
         /\ call.map.default = IF call.fn = "from_vec" THEN 0 ELSE call.value
         /\ \A k \in MapIds :
              get(call.map, k) = IF Listed(call.list, k) THEN LastOf(call.list, k)
                                 ELSE call.map.default)
  /\ [][/\ call'.map.default = call.map.default
        /\ call'.fn = "get" =>
             /\ call'.map = call.map
             /\ call'.out = IF call'.data \in DOMAIN call.map.map
                            THEN call.map.map[call'.data] ELSE call.map.default
        /\ call'.fn = "insert" =>
             /\ get(call'.map, call'.data) = call'.value
             /\ \A k \in MapIds \ {call'.data} :
                  get(call'.map, k) = get(call.map, k)
        /\ call'.fn = "remove" =>
             /\ get(call'.map, call'.data) = call.map.default
             /\ \A k \in MapIds \ {call'.data} :
                  get(call'.map, k) = get(call.map, k)]_vars

\* get of an id the map does not hold returned the nonzero default, the map
\* holding another id whose inserted value replaced the one it was built with
C25_Witness ==
  /\ call.fn = "get"
  /\ call.data \notin DOMAIN call.map.map
  /\ call.out = 20 /\ call.map.default = 20
  /\ \E k \in DOMAIN call.map.map :
       Listed(call.list, k) /\ call.map.map[k] = 0

(***************************************************************************)
(* C26: Sizon::min(c, par) is the smallest, and Sizon::max(c, par) the     *)
(* largest, of c, the abs field when present, and rel * par when rel is    *)
(* present and par is usable (present, not zero, finite); with par not     *)
(* usable only abs is combined with c, and with neither field usable the   *)
(* result is c.  As stated for every usable par this does not hold         *)
(* (C26_SmallestLargestOfCandidates): a negative par is usable to the code *)
(* and the comparison rel < c / par then picks the other way round, so     *)
(* Sizon(20, 0.5).min(30, -100) is 20 and not -50, and                     *)
(* Sizon(20, 0.5).max(30, -100) is -50, less than the candidate.  It holds *)
(* for a positive par (C26_SmallestLargestForPositivePar); for a negative  *)
(* one the result is still one of the values named.                        *)
(***************************************************************************)
\* par is a reference the code uses: Some, and is_normal
Usable(par) ==
  IsSome(par) /\ is_normal(Unwrap(par))

\* the values min and max choose from
Combined(self, c, par) ==
  {c} \cup (IF IsSome(self.abs) THEN {Unwrap(self.abs)} ELSE {})
      \cup (IF IsSome(self.rel) /\ Usable(par)
            THEN {RMul(Unwrap(self.rel), Unwrap(par))} ELSE {})

Smallest(S) ==
  CHOOSE x \in S : \A y \in S : RLe(x, y)

Largest(S) ==
  CHOOSE x \in S : \A y \in S : RGe(x, y)

ResizedOk ==
  last.op = "resize_work" /\ last.res = "Ok"

\* this step is a reconcile that returns Ok
ReconcileStep ==
  last'.op = "wrap_effect_on_update" /\ last'.res = "Ok"

\* the stored ratio of sized carton d times the extent w
RatioSize(d, w) ==
  RMul(Unwrap(Unwrap(get(complex.metric, d)).rel), w)

\* no sized carton's ratio size at extent w is altered by its limits
NoLimitBinds(w) ==
  \A d \in Ids(scn.datas) :
    Sized(complex, d) => limited(complex, d, RatioSize(d, w), w) = RatioSize(d, w)

C27_ReconcileKeepsRatios ==
  [][ResizedOk /\ ~complex.independent /\ ReconcileStep
       /\ wrap_size' # wrap_size /\ NoLimitBinds(wrap_size')
     => \A d \in Ids(scn.datas) :
          Sized(complex, d) =>
            /\ Sized(complex', d)
            /\ Unwrap(get(complex'.metric, d)).abs
                 = Some(RatioSize(d, wrap_size'))]_vars

\* a dependent resize returned Ok and the reconcile that followed ran at
\* another extent: the gesture is still open, the ratios are those the resize
\* stored and not those of the initial size state, and every carton holds
\* its ratio of the new extent
C27_Witness ==
  /\ Reconciled /\ ~complex.independent /\ steps = 4
  /\ wrap_size = R(12)
  /\ \E r \in DOMAIN pos : IsSome(pos[r])
  /\ \A d \in Ids(scn.datas) :
       /\ Sized(complex, d)
       /\ IsSome(Unwrap(get(complex.metric, d)).rel)
       /\ \A rel \in {Unwrap(Unwrap(get(complex.metric, d)).rel)} :
            Unwrap(get(complex.metric, d)).abs = Some(RMul(rel, wrap_size))
  /\ \E d \in Ids(scn.datas) :
       Unwrap(get(complex.metric, d)).rel
         # Unwrap(get(scn.complex0.metric, d)).rel

(***************************************************************************)
(* C28: the size state a reconcile returns.  Every carton sized before the *)
(* call is sized after it, with the rel field it had and with the size the *)
(* call wrote to its style as abs field; a zeroed carton stays zeroed; and *)
(* the default entry is Sizon::abs of the total, which is the sum of the   *)
(* abs fields of the sized cartons.                                        *)
(***************************************************************************)
\* the Sizon stored for sized carton d in the size state of complex self
StoredSizon(self, d) ==
  Unwrap(get(self.metric, d))

C28_ReconcileRevisesAbsOnly ==
  [][ReconcileStep =>
       /\ \A d \in Ids(scn.datas) :
            IF Sized(complex, d)
            THEN /\ Sized(complex', d)
                 /\ StoredSizon(complex', d).rel = StoredSizon(complex, d).rel
                 /\ IsSome(StoredSizon(complex', d).abs)
                 /\ Round2(Unwrap(StoredSizon(complex', d).abs)) = style'[d].size
            ELSE ~Sized(complex', d)
       /\ complex'.metric.default
            = Some(Sizon_abs(StoredTotal(complex', scn.datas)))]_vars

\* after a reconcile a sized carton holds a ratio that is not its size's
\* share of the total, next to a zeroed carton, and the default entry holds
\* the sum of the sizes
C28_Witness ==
  /\ Reconciled
  /\ \E d \in Ids(scn.datas) : ~Sized(complex, d)
  /\ \E d \in Ids(scn.datas) :
       /\ Sized(complex, d)
       /\ IsSome(StoredSizon(complex, d).rel) /\ IsSome(StoredSizon(complex, d).abs)
       /\ RMul(Unwrap(StoredSizon(complex, d).rel), StoredTotal(complex, scn.datas))
            # Unwrap(StoredSizon(complex, d).abs)
  /\ complex.metric.default = Some(Sizon_abs(StoredTotal(complex, scn.datas)))

(***************************************************************************)
(* C29: the cascade shrinks closest-to-boundary first.  After do_shrink a  *)
(* carton of the shrink set has a smaller size (or none) only if every     *)
(* carton nearer to the boundary ends sized and at or below its minimum,   *)
(* and no carton that was shrunk ends below its minimum.  On f64 sizes     *)
(* this does not hold: size - (size - min) can round below min, and        *)
(* handle_shrinking then refuses the carton, which stays at its size above *)
(* the minimum while the capacity moves on to the next carton.             *)
(***************************************************************************)
\* the k-th carton of the shrink set lost size, or its size altogether
Decreased(k) ==
  \/ IsNone(call.out[k])
  \/ FLt(Unwrap(call.out[k]), Unwrap(call.shrinks[k].size))

C29_ShrinksClosestFirst ==
  call.fn = "do_shrink" =>
    \A k \in DOMAIN call.shrinks :
      Decreased(k) =>
        /\ IsSome(call.out[k]) => FLe(call.shrinks[k].min, Unwrap(call.out[k]))
        /\ \A j \in 1..(k - 1) :
             /\ IsSome(call.out[j])
             /\ FLe(Unwrap(call.out[j]), call.shrinks[j].min)

(***************************************************************************)
(* C30: in the ordinary cascade no carton becomes zeroed: every carton of  *)
(* the shrink set that is sized before do_shrink is sized after it.  On    *)
(* f64 sizes this does not hold: when size - (size - min) rounds below min *)
(* and the carton may be zeroed, handle_shrinking zeroes it if the amount  *)
(* is above zeroed_when.                                                   *)
(***************************************************************************)
C30_CascadeCollapsesNone ==
  call.fn = "do_shrink" =>
    \A k \in DOMAIN call.shrinks :
      IsSome(call.shrinks[k].size) => IsSome(call.out[k])

(***************************************************************************)
(* C31: after every reconcile, resize or switch_zero that returns Ok, the  *)
(* position written to each carton's style is the sum of the sizes written *)
(* to the styles of the cartons before it in DOM order (0.00px for a       *)
(* zeroed one).  As stated this does not hold (C31_PosIsSumOfWritten): the *)
(* position is the running sum of the sizes before they are formatted,     *)
(* itself formatted to two decimals, and the sizes are formatted one by    *)
(* one, so the two differ when sizes have more than two decimals.  What    *)
(* holds (C31_PosIsSumBeforeFormat): after a reconcile, a dependent resize *)
(* or a switch_zero, which write every carton, position i is the two       *)
(* decimals of the sum of the sizes stored for the cartons before i, and   *)
(* it differs from the sum of the written sizes by at most a hundredth per *)
(* carton before i; an independent resize rewrites the cartons from the    *)
(* resized one on and leaves the style of those before as it was.          *)
(***************************************************************************)
\* the last handler wrote the style of the cartons and returned Ok
StyledOk ==
  /\ last.res = "Ok"
  /\ last.op \in {"wrap_effect_on_update", "resize_work", "switch_zero"}

\* the sum of the sizes written to the styles of the cartons before the i-th
RECURSIVE WrittenBefore(_, _)
WrittenBefore(st, i) ==
  IF i <= 1 THEN Zero
  ELSE RAdd(WrittenBefore(st, i - 1), st[scn.datas[i - 1]].size)

\* the sum of the sizes stored in the size state for the cartons before the i-th
StoredBefore(self, i) ==
  StylePos(StoredSizes(self, scn.datas), i)

C31_PosIsSumOfWritten ==
  StyledOk =>
    \A i \in 1..Len(scn.datas) :
      style[scn.datas[i]].pos = WrittenBefore(style, i)

C31_PosIsSumBeforeFormat ==
  [][StyledOk' =>
       \A i \in 1..Len(scn.datas) :
         IF complex.independent /\ last'.op = "resize_work"
            /\ i < IndexOf(scn.datas, Unwrap(last'.data))
         THEN style'[scn.datas[i]] = style[scn.datas[i]]
         ELSE /\ style'[scn.datas[i]].pos = Round2(StoredBefore(complex', i))
              /\ RLe(RMul(R(100), RAbs(RSub(style'[scn.datas[i]].pos,
                                             WrittenBefore(style', i)))),
                     R(i - 1))]_vars

\* a reconcile wrote sizes with more than two decimals: the position written
\* to a carton is not the sum of the written sizes before it
C31_Witness ==
  /\ StyledOk /\ last.op = "wrap_effect_on_update"
  /\ \E i \in 1..Len(scn.datas) :
       /\ style[scn.datas[i]].pos # WrittenBefore(style, i)
       /\ style[scn.datas[i]].pos = Round2(StoredBefore(complex, i))

(***************************************************************************)
(* resize_work outside a gesture.  resize_work is public and a caller's    *)
(* move_work may run it on any pointermove event; under init_resizer it    *)
(* runs only while pointer_down_move_up holds the listeners on the         *)
(* document.  MoveWork(r, x) is the pointer_move closure of resizer r run  *)
(* on a pointermove at client position x while its listener is not on the  *)
(* document: before any pointerdown of r, or after a pointerup.            *)
(***************************************************************************)
\* a pointerdown of resizer r is outstanding: its listeners are on the document
Outstanding(r) ==
  \E k \in 1..Len(doc) : doc[k] = r

MoveWork(r, x) ==
  /\ steps < MaxSteps
  /\ r \in DOMAIN shift
  /\ ~Outstanding(r)
  /\ \E S \in {pointer_move([complex |-> complex, style |-> style, pos |-> pos,
                             shift |-> shift, cache |-> cache, last |-> last], r, x)} :
         /\ complex' = S.complex
         /\ style' = S.style
         /\ pos' = S.pos
         /\ shift' = S.shift
         /\ cache' = S.cache
         /\ last' = S.last
  /\ steps' = steps + 1
  /\ UNCHANGED <<scn, wrap_size, resizing, doc, call>>

\* the client position of a pointermove near resizer r
MoveNear(r) ==
  IF style = None THEN scn.moves
  ELSE {RFloor(get_elem_front(style, r))[1] + m : m \in scn.moves}

NextGesture ==
  \/ Next
  \/ \E r \in scn.resizers : \E x \in MoveNear(r) : MoveWork(r, x)

SpecGesture ==
  Init /\ [][NextGesture]_vars

(***************************************************************************)
(* C32: a pointermove is handled as a resize only between a pointerdown of *)
(* the resizer and the pointerup that follows.  The resizing flag of a     *)
(* resizer is true exactly while a pointerdown of it is outstanding, and   *)
(* so are its shift and last pointer position set; a resize_work that      *)
(* returns Ok belongs to a resizer with a pointerdown outstanding; and a   *)
(* pointermove handled for a resizer with none outstanding returns Ignore  *)
(* and leaves the size state, the styles, the restore cache, the session   *)
(* caches and the gesture cells as they are.                               *)
(***************************************************************************)
\* this step runs resize_work for resizer r
MoveStepOf(r) ==
  /\ steps' # steps
  /\ last'.op = "resize_work"
  /\ last'.data = Some(r)

C32_ResizeOnlyWithinGesture ==
  /\ [](\A r \in DOMAIN resizing :
          /\ resizing[r] <=> Outstanding(r)
          /\ IsSome(shift[r]) <=> Outstanding(r)
          /\ IsSome(pos[r]) <=> Outstanding(r))
  /\ [][\A r \in DOMAIN resizing :
          /\ resizing'[r] /\ ~resizing[r]
               => last'.op = "pointer_down" /\ last'.data = Some(r)
          /\ resizing[r] /\ ~resizing'[r] => last'.op = "pointer_up"
          /\ MoveStepOf(r) /\ last'.res = "Ok" => Outstanding(r)
          /\ MoveStepOf(r) /\ ~Outstanding(r)
               => /\ last'.res = "Ignore"
                  /\ UNCHANGED <<complex, style, cache, pos, shift, resizing>>]_vars

\* the cartons are laid out and a pointermove has been handled for a resizer
\* with no pointerdown outstanding: it was ignored
C32_Witness ==
  /\ style # None
  /\ last.op = "resize_work" /\ last.res = "Ignore" /\ last.path = "shift"
  /\ \E r \in DOMAIN resizing :
       /\ last.data = Some(r)
       /\ ~Outstanding(r) /\ ~resizing[r] /\ IsNone(shift[r])

(***************************************************************************)
(* The scenarios DepRel and IndFloor with pointermove events that may      *)
(* leave the pointer where it was.                                         *)
(***************************************************************************)
DepStill ==
  [DepRel EXCEPT !.name = "DepStill", !.moves = {-2, -1, 0, 1, 2}]

IndStill ==
  [IndFloor EXCEPT !.name = "IndStill", !.moves = {-20, 0, 20}]

InitStill ==
  InitOf({DepStill, IndStill})

SpecStill ==
  InitStill /\ [][Next]_vars

Forth(r, m) ==
  update_resize(complex, style, wrap_size, scn.datas, r, R(m), cache[r])

\* the first resize is an ordinary cascade that moved m across the boundary
\* and neither zeroed nor restored a carton
MovedAcross(r, m, u) ==
  /\ u.res = "Ok" /\ u.path = "cascade"
  /\ \A d \in Ids(scn.datas) : IsSome(get(u.metric, d)) <=> Sized(complex, d)
  /\ RSub(get_elem_front(u.style, r), get_elem_front(style, r)) = R(m)

\* the complex as the pointer_move closure leaves it after the resize u
\* returned Ok: the metric stored, the ratios u collected put in zeroed_cache
AfterResize(u) ==
  [complex EXCEPT
     !.metric = u.metric,
     !.zeroed_cache.map =
        [k \in ((DOMAIN complex.zeroed_cache.map) \ u.zr) \cup (DOMAIN u.zc) |->
           IF k \in DOMAIN u.zc THEN u.zc[k] ELSE complex.zeroed_cache.map[k]]]

\* the resize by -m that follows the first resize u: on the complex, the
\* styles and the session cache u left
Back(r, m, u) ==
  update_resize(AfterResize(u), u.style, wrap_size, scn.datas, r, R(-m), u.cache)

\* a gesture is open on resizer r of a dependent complex that is laid out
GestureOn(r) ==
  /\ style # None /\ ~complex.independent
  /\ r \in Ids(scn.datas)
  /\ IsSome(shift[r]) /\ IsSome(pos[r])

\* C34: within one gesture on a dependent complex, with the wrap size fixed
\* and no carton collapsed or restored, a successful ordinary cascade that
\* moves the boundary of resizer r by m, followed by a resize on r by -m that
\* is again an ordinary cascade, succeeds and returns every carton to the
\* size it had before the first resize.
C34_DragRoundTrip ==
  \A r \in scn.resizers, m \in scn.moves :
    GestureOn(r) =>
      \A u \in {Forth(r, m)} :
        MovedAcross(r, m, u) =>
          \A v \in {Back(r, m, u)} :
            v.path = "cascade" =>
              /\ v.res = "Ok"
              /\ \A d \in Ids(scn.datas) : v.style[d].size = style[d].size

\* the expand-side cartons that the first resize u enlarged
Enlarged(u) ==
  {d \in Ids(scn.datas) : RGt(u.style[d].size, style[d].size)}

\* the first resize u enlarged only the sized carton of the expand set that is
\* nearest to the boundary
OnlyNearestEnlarged(r, m, u) ==
  \A n \in {NearestExpand(IndexOf(scn.datas, r), R(m))} :
    n # 0 /\ Enlarged(u) = {scn.datas[n]}

\* the round trip does hold where the first resize is the first of the
\* gesture (the session cache is empty) and enlarges only the nearest carton
\* of its expand set: the shrunk cartons are then cached with the sizes to
\* return to, and the reverse resize takes from the carton that grew
RoundTripOfFirstResize ==
  \A r \in scn.resizers, m \in scn.moves :
    (GestureOn(r) /\ cache[r] = <<>>) =>
      \A u \in {Forth(r, m)} :
        (MovedAcross(r, m, u) /\ OnlyNearestEnlarged(r, m, u)) =>
          \A v \in {Back(r, m, u)} :
            v.path = "cascade" =>
              /\ v.res = "Ok"
              /\ \A d \in Ids(scn.datas) : v.style[d].size = style[d].size

(***************************************************************************)
(* Dependent mode, three cartons of 100 in a wrap of 300, the minimum 50   *)
(* each; carton 1 is at its maximum 100.                                   *)
(***************************************************************************)
DepRound ==
  Scenario("DepRound",
    CartonsComplex_new(FALSE,
      CartonsMap_new(0 :> Some(Sizon_abs(R(100))) @@ 1 :> Some(Sizon_abs(R(100)))
                     @@ 2 :> Some(Sizon_abs(R(100))), None),
      CartonsMap_new(NoMap, Sizon_abs(R(50))),
      CartonsMap_new(1 :> Sizon_abs(R(100)), Sizon_default),
      CartonsMap_new(NoMap, FALSE),
      CartonsMap_new(NoMap, Sizon_abs(R(10))),
      CartonsMap_new(NoMap, Q(1, 5))),
    <<0, 1, 2>>, {300}, {TRUE}, {0, 1}, {-40, -20, 20, 40}, {2})

InitRound ==
  InitOf({DepRound, DepCache})

SpecRound ==
  InitRound /\ [][Next]_vars


\* carton d goes from sized to collapsed in the step
GoesCollapsed(d) ==
  style # None /\ Sized(complex, d) /\ ~Sized(complex', d)

\* the ratio the restore cache should hold for a carton collapsing in the step
RatioBefore(d) ==
  RDiv(style[d].size, wrap_size)

\* C35: whenever a carton goes from sized to collapsed (independent drag,
\* dependent drag or switch_zero), its zeroed_cache entry afterwards is the
\* size it had just before the collapse divided by the wrap size.
C35_CollapseCachesRatio ==
  [][\A d \in Ids(scn.datas) :
       GoesCollapsed(d) => get(complex'.zeroed_cache, d) = RatioBefore(d)]_vars

\* the same for the collapses that are not an independent drag: a dependent
\* zero-shrink and switch_zero write the ratio as they collapse
CollapseCachesRatioUnlessIndependentDrag ==
  [][\A d \in Ids(scn.datas) :
       (GoesCollapsed(d) /\ ~(complex.independent /\ last'.op = "resize_work")) =>
          get(complex'.zeroed_cache, d) = RatioBefore(d)]_vars


\* carton d has an entry in the size state
InSizeState(d) ==
  d \in DOMAIN complex.metric.map

\* adjust_to_fill_blank applied to the cartons as they are measured
FilledNow ==
  adjust_to_fill_blank(complex, wrap_size, MeasuredSizes(complex, style, scn.datas)).sizes

\* the step is a reconcile
Reconciles ==
  steps' # steps /\ last'.op = "wrap_effect_on_update"

\* the step is a drag or a switch_zero that returned Ok
DragOrSwitchOk ==
  /\ steps' # steps /\ last'.res = "Ok"
  /\ last'.op \in {"resize_work", "switch_zero"}

\* C36: the sized or collapsed status of a carton of the size state changes
\* only in a drag or a switch_zero that returned Ok; a reconcile changes the
\* status of no carton and leaves a collapsed carton with the written size 0
\* whatever the blank, and adjust_to_fill_blank on the measured cartons
\* returns a size for exactly the sized ones (dependent mode, where it is
\* called); after every step a collapsed carton has the written size 0.
C36_StatusOnlyByDragOrSwitch ==
  /\ []((style # None /\ ~complex.independent) =>
          \A i \in 1..Len(scn.datas) :
            IsSome(FilledNow[i][2]) <=> Sized(complex, scn.datas[i]))
  /\ [][\A d \in Ids(scn.datas) :
          InSizeState(d) =>
            /\ (Sized(complex', d) # Sized(complex, d)) => DragOrSwitchOk
            /\ Reconciles =>
                 /\ Sized(complex', d) <=> Sized(complex, d)
                 /\ (last'.res = "Ok" /\ ~Sized(complex, d)) =>
                       style'[d].size = Zero
            /\ (style' # None /\ ~Sized(complex', d)) => style'[d].size = Zero]_vars

\* a dependent complex with a collapsed carton has been reconciled to a wrap
\* whose blank was handed out: the sized cartons fill the wrap and one of them
\* is not at its stored candidate size, the collapsed carton is written 0
C36_Witness ==
  /\ style # None /\ ~complex.independent
  /\ last.op = "wrap_effect_on_update" /\ last.res = "Ok" /\ steps >= 2
  /\ StoredTotal(complex, scn.datas) = wrap_size
  /\ \E d \in Ids(scn.datas) : ~Sized(complex, d) /\ style[d].size = Zero
  /\ \E d \in Ids(scn.datas) : Sized(complex, d) /\ RGt(style[d].size, Zero)


(***************************************************************************)
(* Cleanup of a resizer (init_resizer's on_cleanup): the pointerdown       *)
(* listener is removed from the resizer and (raws, cache, shift).clean()   *)
(* frees cb_move, cb_up, the session cache and shift.  Freed state is no   *)
(* longer in the domain of shift and cache; pos is not in the cleaned      *)
(* tuple and stays.  The listeners cb_down added to the document are       *)
(* removed by cb_up alone, so cleanup leaves doc as it is.  A dropped      *)
(* Closure called by the browser throws instead of running its body.       *)
(***************************************************************************)
IsLive(r) ==
  r \in DOMAIN shift

IsDropped(r) ==
  r \in DOMAIN pos /\ r \notin DOMAIN shift

AllLive ==
  \A k \in 1..Len(doc) : IsLive(doc[k])

Cleanup(r) ==
  /\ steps < MaxSteps
  /\ IsLive(r)
  /\ shift' = [x \in (DOMAIN shift) \ {r} |-> shift[x]]
  /\ cache' = [x \in (DOMAIN cache) \ {r} |-> cache[x]]
  /\ last' = Last("on_cleanup", Some(r), None, "Ok", "")
  /\ steps' = steps + 1
  /\ UNCHANGED <<scn, complex, wrap_size, style, pos, resizing, doc, call>>

\* a pointermove event on the document while a dropped cb_move is among the
\* listeners: the live ones run, the dropped ones throw
DroppedMove(x) ==
  /\ steps < MaxSteps
  /\ doc # <<>> /\ ~AllLive
  /\ \E S \in {MoveAll([complex |-> complex, style |-> style, pos |-> pos,
                         shift |-> shift, cache |-> cache, last |-> last],
                        SelectSeq(doc, IsLive), x, 1)} :
         /\ complex' = S.complex
         /\ style' = S.style
         /\ pos' = S.pos
         /\ shift' = S.shift
         /\ cache' = S.cache
         /\ last' = IF IsLive(doc[Len(doc)]) THEN S.last
                    ELSE Last("cb_move", Some(doc[Len(doc)]), None, "Throw", "dropped")
  /\ steps' = steps + 1
  /\ UNCHANGED <<scn, wrap_size, resizing, doc, call>>

\* a pointerup event on the document while a dropped cb_up is among the
\* listeners: the live ones run pointer_up and remove their listeners, the
\* dropped ones throw and stay
DroppedUp ==
  /\ steps < MaxSteps
  /\ doc # <<>> /\ ~AllLive
  /\ LET up == {r \in Ids(doc) : IsLive(r)}
     IN  /\ cache' = [r \in DOMAIN cache |-> IF r \in up THEN <<>> ELSE cache[r]]
         /\ shift' = [r \in DOMAIN shift |-> IF r \in up THEN None ELSE shift[r]]
         /\ pos' = [r \in DOMAIN pos |-> IF r \in up THEN None ELSE pos[r]]
         /\ resizing' = [r \in DOMAIN resizing |-> IF r \in up THEN FALSE ELSE resizing[r]]
  /\ doc' = SelectSeq(doc, IsDropped)
  /\ last' = Last("cb_up", Some(doc[Len(doc)]), None,
                  IF IsLive(doc[Len(doc)]) THEN "Ok" ELSE "Throw", "dropped")
  /\ steps' = steps + 1
  /\ UNCHANGED <<scn, complex, wrap_size, style, call>>

NextCleanup ==
  \/ \E w \in scn.wraps, resolved \in scn.resolves : WrapEffect(w, resolved)
  \/ \E r \in scn.resizers : \E x \in DownAt(r) : PointerDown(r, x)
  \/ AllLive /\ \E x \in MoveTo : PointerMove(x)
  \/ AllLive /\ PointerUp
  \/ \E data \in scn.switch, on \in BOOLEAN : SwitchZero(data, on)
  \/ \E r \in scn.resizers : Cleanup(r)
  \/ \E x \in MoveTo : DroppedMove(x)
  \/ DroppedUp

SpecCleanup ==
  Init /\ [][NextCleanup]_vars

\* C37: after the cleanup of a resizer has run, none of its pointermove and
\* pointerup listeners is on the document, and no later step changes anything
\* through a callback of it; also when the cleanup runs between pointerdown
\* and pointerup.
C37_CleanupLeavesNoListener ==
  /\ [](\A r \in DOMAIN pos : IsDropped(r) => ~Outstanding(r))
  /\ [][\A r \in DOMAIN pos :
          IsDropped(r) => (pos'[r] = pos[r] /\ resizing'[r] = resizing[r])]_vars

\* a cleanup that runs while no pointerdown of the resizer is outstanding
\* leaves no listener of it on the document: a dropped listener on the
\* document belongs to a resizer cleaned between pointerdown and pointerup,
\* whose resizing stays true and whose pos stays set
DroppedListenerOnlyMidDrag ==
  /\ [](\A r \in DOMAIN pos :
          (IsDropped(r) /\ Outstanding(r)) => (resizing[r] /\ IsSome(pos[r])))
  /\ [][\A r \in DOMAIN pos :
          (IsLive(r) /\ ~Outstanding(r) /\ IsDropped(r)') => ~Outstanding(r)']_vars

====
